---- MODULE Spec2Model ----
(***************************************************************************)
(* A model of the marketplace front end: the pages' handlers (listing,     *)
(* product detail, book detail, cart, checkout, discount widget, admin     *)
(* dashboard, seller payouts) acting on the hosted backend's collections.  *)
(*                                                                         *)
(* Money is counted in pence.  Prices are whole pounds, so that the        *)
(* percentages the code computes (discount %, 5% commission) are exact     *)
(* integers; the code's floating point rounding is not modelled.           *)
(* The backend client is an external collaborator: a call either resolves  *)
(* with the effect its name says or throws; a collection's rows carry the  *)
(* same fields under the snake_case and the camelCase spelling.            *)
(***************************************************************************)
EXTENDS Integers, Sequences, FiniteSets, TLC

(***************************************************************************)
(* Bounds of the model.                                                    *)
(***************************************************************************)
MaxStock == 2
MaxOrders == 2
MaxTime == 1
MaxBookQuantity == 2
MaxPast == 1
MaxProducts == 53
MaxSales == 2
MaxPayouts == 2
MaxShopOrders == 1

Sessions == {"s1", "s2"}
Users == {"u1", "u2"}
Sellers == {"seller1", "seller2"}
ProductIds == {"p1", "p2"}
BookIds == {"b1"}
CodeIds == {"d1", "d2"}
Null == "null"

VARIABLES
    db,              \* the backend's collections
    now,             \* the wall clock read by new Date()
    authUser,        \* per browser session: the user blink.auth.me() resolves to
    isAdmin,         \* per session: App.isAdmin
    loading,         \* per session: App.loading
    calls,           \* per session: the handler call whose awaits are in flight
    flags,           \* per session: Checkout.processing, SellerPayouts.processingPayout,
                     \* HomePage.loading
    route,           \* per session: the page the router has mounted
    products,        \* HomePage.products: the listing as last loaded
    product,         \* ProductDetails.product / BookDetails.book as last loaded
    quantity,        \* ProductDetails.quantity (the quantity select)
    cartItems,       \* Cart.cartItems / Checkout.cartItems as last loaded
    appliedDiscount, \* Cart.appliedDiscount / Checkout.appliedDiscount
    orderComplete,   \* Checkout.orderComplete
    filters,         \* HomePage: searchQuery, filterCategory, filterCondition, sortBy
    earnings,        \* SellerPayouts.earnings as last loaded
    stats,           \* SellerPayouts.stats as last computed
    ev               \* the handler that ran last, its inputs and its outcome

vars == <<db, now, authUser, isAdmin, loading, calls, flags, route, products, product, quantity, cartItems,
          appliedDiscount, orderComplete, filters, earnings, stats, ev>>

authVars == <<authUser, isAdmin, loading>>

pageVars == <<route, products, product, quantity, cartItems, appliedDiscount,
              orderComplete, filters, earnings, stats>>

(***************************************************************************)
(* Arithmetic helpers.                                                     *)
(***************************************************************************)
Min(a, b) == IF a <= b THEN a ELSE b

Max(a, b) == IF a >= b THEN a ELSE b

\* The sum of a list of numbers.
RECURSIVE SumSeq(_)
SumSeq(q) == IF q = <<>> THEN 0 ELSE Head(q) + SumSeq(Tail(q))

RangeOf(q) == {q[i] : i \in 1..Len(q)}

(***************************************************************************)
(* Amounts as the code computes them.  A price typed into the admin form   *)
(* is parseFloat's Number, the binary64 value nearest to the decimal, and  *)
(* *, + and - on Numbers round their exact result to 53 significant bits,  *)
(* ties to even.  A non-negative Number is m * 2^e with m a natural number *)
(* below 2^53, kept odd (or zero); naturals of that size are sequences of  *)
(* digits in base 2^15, lowest digit first, without leading zeros.         *)
(***************************************************************************)
Base == 2^15

SignificandBits == 53

RECURSIVE Norm(_)
Norm(a) == IF a = <<>> \/ a[Len(a)] # 0 THEN a ELSE Norm(SubSeq(a, 1, Len(a) - 1))

DigitAt(a, i) == IF i <= Len(a) THEN a[i] ELSE 0

Rest(a) == IF a = <<>> THEN <<>> ELSE Tail(a)

RECURSIVE AddC(_, _, _)
AddC(a, b, c) ==
    IF a = <<>> /\ b = <<>> THEN (IF c = 0 THEN <<>> ELSE <<c>>)
    ELSE LET x == DigitAt(a, 1) + DigitAt(b, 1) + c
         IN <<x % Base>> \o AddC(Rest(a), Rest(b), x \div Base)

AddN(a, b) == AddC(a, b, 0)

\* a - b for a >= b
RECURSIVE SubC(_, _, _)
SubC(a, b, c) ==
    IF a = <<>> THEN <<>>
    ELSE LET x == Head(a) - DigitAt(b, 1) - c
         IN <<x % Base>> \o SubC(Tail(a), Rest(b), IF x < 0 THEN 1 ELSE 0)

SubN(a, b) == Norm(SubC(a, b, 0))

\* a * k + c for 0 <= k < Base
RECURSIVE MulSmall(_, _, _)
MulSmall(a, k, c) ==
    IF a = <<>> THEN (IF c = 0 THEN <<>> ELSE <<c>>)
    ELSE LET x == Head(a) * k + c
         IN <<x % Base>> \o MulSmall(Tail(a), k, x \div Base)

RECURSIVE MulC(_, _)
MulC(a, b) ==
    IF b = <<>> THEN <<>>
    ELSE AddN(MulSmall(a, Head(b), 0), <<0>> \o MulC(a, Tail(b)))

MulN(a, b) == Norm(MulC(a, b))

\* quotient and remainder of a by d, 0 < d <= Base
RECURSIVE DivC(_, _)
DivC(a, d) ==
    IF a = <<>> THEN [q |-> <<>>, r |-> 0]
    ELSE LET hi == DivC(Tail(a), d)
             x == hi.r * Base + Head(a)
         IN [q |-> <<x \div d>> \o hi.q, r |-> x % d]

DivSmall(a, d) == [q |-> Norm(DivC(a, d).q), r |-> DivC(a, d).r]

RECURSIVE LessN(_, _)
LessN(a, b) ==
    IF Len(a) # Len(b) THEN Len(a) < Len(b)
    ELSE IF a = <<>> THEN FALSE
    ELSE IF a[Len(a)] # b[Len(b)] THEN a[Len(a)] < b[Len(b)]
    ELSE LessN(SubSeq(a, 1, Len(a) - 1), SubSeq(b, 1, Len(b) - 1))

FromNat(n) == Norm(<<n % Base, n \div Base>>)

BitLen(a) ==
    IF a = <<>> THEN 0
    ELSE 15 * (Len(a) - 1) + CHOOSE k \in 1..15 : 2^(k-1) <= a[Len(a)] /\ a[Len(a)] < 2^k

\* a * 2^k
ShlN(a, k) ==
    IF a = <<>> THEN <<>>
    ELSE [i \in 1..(k \div 15) |-> 0] \o MulSmall(a, 2^(k % 15), 0)

\* floor(a / 2^k)
ShrN(a, k) ==
    IF k \div 15 >= Len(a) THEN <<>>
    ELSE DivSmall(SubSeq(a, (k \div 15) + 1, Len(a)), 2^(k % 15)).q

IsOdd(a) == a # <<>> /\ a[1] % 2 = 1

Zero == [m |-> <<>>, e |-> 0]

\* m * 2^e with m odd
RECURSIVE Canon(_, _)
Canon(m, e) ==
    IF m = <<>> THEN Zero
    ELSE IF m[1] = 0 THEN Canon(Tail(m), e + 15)
    ELSE IF IsOdd(m) THEN [m |-> m, e |-> e]
    ELSE Canon(ShrN(m, 1), e + 1)

\* The Number nearest to m * 2^e, ties to even.
Round(m, e) ==
    LET r == BitLen(m) - SignificandBits IN
    IF r <= 0 THEN Canon(m, e)
    ELSE LET q == ShrN(m, r)
             rem == SubN(m, ShlN(q, r))
             half == ShlN(<<1>>, r - 1)
             up == LessN(half, rem) \/ (rem = half /\ IsOdd(q))
         IN Canon(IF up THEN AddN(q, <<1>>) ELSE q, e + r)

\* x.m and y.m brought to the smaller of the two exponents
Aligned(x, y) ==
    LET e == IF x.e < y.e THEN x.e ELSE y.e
    IN [x |-> ShlN(x.m, x.e - e), y |-> ShlN(y.m, y.e - e), e |-> e]

Times(x, y) == Round(MulN(x.m, y.m), x.e + y.e)

Plus(x, y) == LET a == Aligned(x, y) IN Round(AddN(a.x, a.y), a.e)

\* x - y for x >= y
Minus(x, y) == LET a == Aligned(x, y) IN Round(SubN(a.x, a.y), a.e)

Less(x, y) == LET a == Aligned(x, y) IN LessN(a.x, a.y)

FromInt(n) == Canon(FromNat(n), 0)

\* parseFloat of a decimal with two places, given in hundredths: the Number
\* nearest to c / 100.  The quotient c * 2^70 / 100 has more than 53 bits; a
\* last bit stands for a remainder.
FromCents(c) ==
    LET d == DivSmall(ShlN(FromNat(c), 70), 100)
        sticky == IF d.r = 0 THEN <<>> ELSE <<1>>
    IN Round(AddN(ShlN(d.q, 1), sticky), -71)

\* The rows of a set as a list, highest id first.
RECURSIVE ByIdDesc(_)
ByIdDesc(S) ==
    IF S = {} THEN <<>>
    ELSE LET top == CHOOSE r \in S : \A o \in S : o.id <= r.id
         IN <<top>> \o ByIdDesc(S \ {top})

\* A fresh row id: the backend never hands out an id that is in use.
FreshId(S) == CHOOSE n \in 1..(Cardinality(S) + 1) : \A r \in S : r.id # n

(***************************************************************************)
(* The backend client: db.<collection>.list / create / update / delete.    *)
(* A collection is a set of rows; every row has an id.                     *)
(***************************************************************************)
\* list({where: {id}, limit: 1}) on products
ProductRows(d, p) == {r \in d.products : r.id = p}

\* list({where: {user_id, product_id}}) on cartItems
CartRowsOf(d, u, p) == {r \in d.cartItems : r.user_id = u /\ r.product_id = p}

\* list({where: {AND: [{userId}, {bookId}]}}) on cartItems
BookRowsOf(d, u, b) == {r \in d.cartItems : r.user_id = u /\ r.book_id = b}

\* list({where: {user_id}}) on cartItems
CartOf(d, u) == {r \in d.cartItems : r.user_id = u}

\* The row a list call hands back first (existingItems[0], products[0]).
FirstRow(S) == CHOOSE r \in S : \A o \in S : r.id <= o.id

\* The one row a lookup by a unique key hands back (products[0], discountCodes[0]).
OnlyRow(S) == CHOOSE r \in S : TRUE

\* update(id, patch) of one field
SetQuantity(rows, id, q) ==
    {IF r.id = id THEN [r EXCEPT !.quantity = q] ELSE r : r \in rows}

SetStock(rows, p, n) ==
    {IF r.id = p THEN [r EXCEPT !.stock_quantity = n] ELSE r : r \in rows}

NewCartRow(d, u, p, b, q) ==
    [id |-> FreshId(d.cartItems), user_id |-> u, product_id |-> p,
     book_id |-> b, quantity |-> q]

(***************************************************************************)
(* Authentication: App keeps the user the auth client reports and whether  *)
(* that user's email is in the static admin allow-list.                    *)
(***************************************************************************)
\* The accounts that can sign in, and their email addresses as the auth
\* client reports them.
Accounts == Users \cup Sellers

EmailOf(u) ==
    CASE u = "u1" -> "shopper@example.com"
      [] u = "u2" -> "Reader@Example.com"
      [] u = "seller1" -> "kai.jiabo.feng@gmail.com"
      [] u = "seller2" -> "Mustafayare2009@Gmail.com"
      [] OTHER -> ""

\* String.toLowerCase() on an email address
ToLowerCase(t) ==
    CASE t = "Reader@Example.com" -> "reader@example.com"
      [] t = "Mustafayare2009@Gmail.com" -> "mustafayare2009@gmail.com"
      [] OTHER -> t

\* ADMIN_CONFIG.adminEmails
adminEmails == {"kai.jiabo.feng@gmail.com", "mustafayare2009@gmail.com"}

\* A slip in the check: the email is looked up as it is spelled.
IsAdminCaseSensitive(email) == email \in adminEmails

\* ADMIN_CONFIG.isAdmin(email)
IsAdmin(email) == ToLowerCase(email) \in adminEmails

\* No handler call is in flight.
NoCall == [op |-> "none"]

\* The in-flight flags of a page as useState creates them, and once the load
\* of the page's mount effect has ended.
Mounted == [processing |-> FALSE, processingPayout |-> FALSE, loading |-> TRUE]

Idle == [processing |-> FALSE, processingPayout |-> FALSE, loading |-> FALSE]

\* App after the auth client has reported the users f (one per session).
SignedIn(f) ==
    /\ authUser = f
    /\ isAdmin = [s \in Sessions |-> IsAdmin(EmailOf(f[s]))]
    /\ loading = [s \in Sessions |-> FALSE]

(***************************************************************************)
(* The state after construction: every session shows the listing page     *)
(* with its initial component state, the backend holds the catalogue.      *)
(***************************************************************************)
Catalogue ==
    { [id |-> "p1", price |-> 4000, stock_quantity |-> MaxStock,
       user_id |-> "seller1", name |-> <<"a", "b">>, brand |-> <<"x">>,
       description |-> <<>>, category |-> <<"c">>, condition |-> <<"n">>],
      [id |-> "p2", price |-> 6000, stock_quantity |-> MaxStock,
       user_id |-> "seller2", name |-> <<"b", "a">>, brand |-> <<"y">>,
       description |-> <<"a">>, category |-> <<"d">>, condition |-> <<"u">>] }

\* max_uses 0 stands for null (no limit); expires_at is <<>> (null) or <<t>>.
InitialCodes ==
    { [id |-> "d1", code |-> "SAVE10", is_active |-> TRUE,
       discount_type |-> "percentage", discount_value |-> 10,
       minimum_order_amount |-> 5000, max_uses |-> 1, current_uses |-> 0,
       expires_at |-> <<>>],
      [id |-> "d2", code |-> "BIG", is_active |-> TRUE,
       discount_type |-> "fixed", discount_value |-> 15000,
       minimum_order_amount |-> 0, max_uses |-> 0, current_uses |-> 0,
       expires_at |-> <<0>>] }

EmptyDb ==
    [products |-> {}, cartItems |-> {}, orders |-> {}, orderItems |-> {},
     discountCodes |-> {}, discountCodeUses |-> {}, sellerEarnings |-> {},
     payoutRequests |-> {}, payoutItems |-> {}]

\* useState(null) for a product and for an applied discount.
NoProduct == [id |-> Null, price |-> 0, stockQuantity |-> 0]

NoDiscount == [code |-> Null, amount |-> 0]

\* HomePage's filter state at mount: no search text in the URL, both selects
\* on 'all', sorted by name.
All == <<"a", "l", "l">>

NoFilters == [searchQuery |-> <<>>, filterCategory |-> All,
              filterCondition |-> All, sortBy |-> "name"]

\* SellerPayouts' stats at mount.
NoStats == [totalEarnings |-> 0, availableBalance |-> 0]

NoEvent == [op |-> "none", s |-> Null, out |-> Null, p |-> Null, q |-> 0,
            code |-> Null, dbCalls |-> 0]

\* The blink.db calls a handler has awaited when a validation ends it:
\* none for the checks on the page's own state; the existing cart row for
\* the combined quantity of addToCart; one product row per line for the
\* checkout's stock validation; the code row for the discount checks (and the
\* usage rows for the last of them).
DbCallsBeforeRefusal(op, s, out) ==
    CASE op \in {"HomePage.addToCart", "ProductDetails.addToCart"}
            /\ out = "insufficient" -> 1
      [] op = "handleSubmit" /\ out = "stock_failed" -> Len(cartItems[s])
      [] op = "validateAndApplyDiscount"
            /\ out \in {"invalid", "expired", "limit_reached", "minimum_not_met"} -> 1
      [] op = "validateAndApplyDiscount" /\ out = "already_used" -> 2
      [] OTHER -> 0

Event(op, s, out, p, q) ==
    [NoEvent EXCEPT !.op = op, !.s = s, !.out = out, !.p = p, !.q = q,
                    !.dbCalls = DbCallsBeforeRefusal(op, s, out)]

InitPages ==
    /\ route = [s \in Sessions |-> "home"]
    /\ products = [s \in Sessions |-> {}]
    /\ product = [s \in Sessions |-> NoProduct]
    /\ quantity = [s \in Sessions |-> 1]
    /\ cartItems = [s \in Sessions |-> <<>>]
    /\ appliedDiscount = [s \in Sessions |-> NoDiscount]
    /\ orderComplete = [s \in Sessions |-> FALSE]
    /\ filters = [s \in Sessions |-> NoFilters]
    /\ earnings = [s \in Sessions |-> <<>>]
    /\ stats = [s \in Sessions |-> NoStats]
    /\ calls = [s \in Sessions |-> NoCall]
    /\ flags = [s \in Sessions |-> Mounted]
    /\ ev = NoEvent

Init ==
    /\ db = [EmptyDb EXCEPT !.products = Catalogue, !.discountCodes = InitialCodes]
    /\ now = 0
    /\ SignedIn([s \in Sessions |-> IF s = "s1" THEN "u1" ELSE "u2"])
    /\ InitPages

\* A cart the listing and product pages can have filled for user u:
\* q1 of p1 and q2 of p2, the p1 row created first.
FilledCart(u, q1, q2) ==
    (IF q1 > 0
     THEN {[id |-> 1, user_id |-> u, product_id |-> "p1", book_id |-> Null,
            quantity |-> q1]}
     ELSE {})
    \cup
    (IF q2 > 0
     THEN {[id |-> IF q1 > 0 THEN 2 ELSE 1, user_id |-> u, product_id |-> "p2",
            book_id |-> Null, quantity |-> q2]}
     ELSE {})

\* The shopper of s1 has filled the cart and is about to open it.
InitCheckout ==
    /\ \E q1 \in 0..MaxStock, q2 \in 0..MaxStock :
         db = [EmptyDb EXCEPT !.products = Catalogue,
                              !.discountCodes = InitialCodes,
                              !.cartItems = FilledCart("u1", q1, q2)]
    /\ now = 0
    /\ SignedIn([s \in Sessions |-> IF s = "s1" THEN "u1" ELSE "u2"])
    /\ InitPages

\* A session's page state: the router mounts page r with this component state.
ShopPage(s, r, prods, prod, qty, items, disc, done) ==
    /\ route' = [route EXCEPT ![s] = r]
    /\ products' = [products EXCEPT ![s] = prods]
    /\ product' = [product EXCEPT ![s] = prod]
    /\ quantity' = [quantity EXCEPT ![s] = qty]
    /\ cartItems' = [cartItems EXCEPT ![s] = items]
    /\ appliedDiscount' = [appliedDiscount EXCEPT ![s] = disc]
    /\ orderComplete' = [orderComplete EXCEPT ![s] = done]

\* The same for a page other than the listing and the payouts page: their
\* component state is gone.  The load of the page's mount effect has ended.
SetPage(s, r, prods, prod, qty, items, disc, done) ==
    /\ ShopPage(s, r, prods, prod, qty, items, disc, done)
    /\ filters' = [filters EXCEPT ![s] = NoFilters]
    /\ earnings' = [earnings EXCEPT ![s] = <<>>]
    /\ stats' = [stats EXCEPT ![s] = NoStats]
    /\ flags' = [flags EXCEPT ![s] = Idle]

\* The router mounts the listing page; its effect has not run yet.
MountHome(s) ==
    /\ ShopPage(s, "home", {}, NoProduct, 1, <<>>, NoDiscount, FALSE)
    /\ filters' = [filters EXCEPT ![s] = NoFilters]
    /\ earnings' = [earnings EXCEPT ![s] = <<>>]
    /\ stats' = [stats EXCEPT ![s] = NoStats]
    /\ flags' = [flags EXCEPT ![s] = Mounted]

(***************************************************************************)
(* The listing page.                                                       *)
(***************************************************************************)
\* mappedProducts: the fields of a product row the pages keep.
MapProduct(r) == [id |-> r.id, price |-> r.price, stockQuantity |-> r.stock_quantity]

\* Texts are sequences of letters; the alphabet in dictionary order.
Alphabet == <<"a", "b", "c", "d", "l", "n", "r", "u", "x", "y", "z">>

Ranks == [l \in {Alphabet[i] : i \in 1..Len(Alphabet)} |->
             CHOOSE i \in 1..Len(Alphabet) : Alphabet[i] = l]

Rank(l) == Ranks[l]

\* a < b in dictionary order
RECURSIVE LexLess(_, _)
LexLess(a, b) ==
    IF b = <<>> THEN FALSE
    ELSE IF a = <<>> THEN TRUE
    ELSE IF Head(a) = Head(b) THEN LexLess(Tail(a), Tail(b))
    ELSE Rank(Head(a)) < Rank(Head(b))

\* { field: { contains: text } }: text occurs in the field's value.
Contains(hay, needle) ==
    \E i \in 0..(Len(hay) - Len(needle)) :
        SubSeq(hay, i + 1, i + Len(needle)) = needle

\* The selects of the listing: categories and conditions (short stand-ins for
\* the slugs), and the sort keys.
categories == {All, <<"c">>}
conditions == {All, <<"n">>}
SortKeys == {"name", "brand", "price"}

\* What a user types into the header's search box (already trimmed).
SearchTexts == {<<>>, <<"a">>, <<"a", "b">>}

EmptyQuery == [kind |-> "all"]

ContainsQuery(field, text) == [kind |-> "contains", field |-> field, value |-> text]

EqualsQuery(field, value) == [kind |-> "equals", field |-> field, value |-> value]

\* "Apply search filter"
SearchQueryOf(f) ==
    IF f.searchQuery # <<>>
    THEN [kind |-> "OR",
          args |-> <<ContainsQuery("name", f.searchQuery),
                     ContainsQuery("brand", f.searchQuery),
                     ContainsQuery("description", f.searchQuery),
                     ContainsQuery("category", f.searchQuery)>>]
    ELSE EmptyQuery

\* "Apply category filter"
CategoryQueryOf(f) ==
    IF f.filterCategory # All
    THEN IF f.searchQuery # <<>>
         THEN [kind |-> "AND",
               args |-> <<SearchQueryOf(f), EqualsQuery("category", f.filterCategory)>>]
         ELSE EqualsQuery("category", f.filterCategory)
    ELSE SearchQueryOf(f)

\* A slip in the query: the condition filter replaces what was built so far.
BuildQueryConditionOnly(f) ==
    IF f.filterCondition # All
    THEN EqualsQuery("condition", f.filterCondition)
    ELSE CategoryQueryOf(f)

\* "Apply condition filter": the where clause loadProducts sends.
BuildQuery(f) ==
    IF f.filterCondition # All
    THEN IF CategoryQueryOf(f).kind # "all"
         THEN [kind |-> "AND",
               args |-> <<CategoryQueryOf(f),
                          EqualsQuery("condition", f.filterCondition)>>]
         ELSE EqualsQuery("condition", f.filterCondition)
    ELSE CategoryQueryOf(f)

\* The backend's evaluation of a where clause on a row.
RECURSIVE Matches(_, _)
Matches(q, r) ==
    CASE q.kind = "all" -> TRUE
      [] q.kind = "contains" -> Contains(r[q.field], q.value)
      [] q.kind = "equals" -> r[q.field] = q.value
      [] q.kind = "OR" -> \E i \in 1..Len(q.args) : Matches(q.args[i], r)
      [] q.kind = "AND" -> \A i \in 1..Len(q.args) : Matches(q.args[i], r)

\* orderBy: { [sortBy]: 'asc' }: row a sorts strictly before row b.
SortsBefore(sortBy, a, b) ==
    IF sortBy = "price" THEN a.price < b.price ELSE LexLess(a[sortBy], b[sortBy])

\* The subsets of T with k elements.
RECURSIVE KSubsets(_, _)
KSubsets(T, k) ==
    IF k = 0 THEN {{}}
    ELSE UNION {{Y \cup {t} : Y \in KSubsets(T \ {t}, k - 1)} : t \in T}

ListLimit == 50

\* products.list({ where, orderBy, limit }): the sets of rows the backend can
\* answer with: the matching rows, and, when more than limit match, all but
\* the last ones in the order (rows with equal keys in any order).
ListProducts(d, q, sortBy, limit) ==
    LET M == {r \in d.products : Matches(q, r)}
        excess == Cardinality(M) - limit
    IN  IF excess <= 0 THEN {M}
        ELSE LET last == {m \in M :
                            Cardinality({x \in M : SortsBefore(sortBy, m, x)}) < excess}
             IN {M \ X : X \in {Y \in KSubsets(last, excess) :
                                  \A y \in Y, m \in M \ Y : ~SortsBefore(sortBy, y, m)}}

\* loadProducts() with the filter state f; on a thrown call the list is left
\* as it was.
LoadProductsWith(s, f, prods, op) ==
    /\ \E fail \in BOOLEAN :
        \E rows \in ListProducts(db, BuildQuery(f), f.sortBy, ListLimit) :
            /\ ShopPage(s, "home",
                        IF fail THEN prods ELSE {MapProduct(r) : r \in rows},
                        NoProduct, 1, <<>>, NoDiscount, FALSE)
            /\ ev' = Event(op, s, IF fail THEN "error" ELSE "ok", Null, 0)
    /\ filters' = [filters EXCEPT ![s] = f]
    /\ earnings' = [earnings EXCEPT ![s] = <<>>]
    /\ stats' = [stats EXCEPT ![s] = NoStats]
    /\ flags' = [flags EXCEPT ![s] = Idle]
    /\ UNCHANGED <<db, now, authVars, calls>>

\* HomePage mounts at "/" and its effect runs loadProducts.
LoadProducts(s) == LoadProductsWith(s, NoFilters, {}, "loadProducts")

\* Header.handleSearch: navigate to /?search=text (to / when the text is
\* empty); HomePage mounts, or, when it is mounted, keeps its selects; the
\* effect runs loadProducts.
HandleSearch(s) ==
    \E text \in SearchTexts :
        /\ route[s] = "home" => text # filters[s].searchQuery
        /\ IF route[s] = "home"
           THEN LoadProductsWith(s, [filters[s] EXCEPT !.searchQuery = text],
                                 products[s], "loadProducts")
           ELSE LoadProductsWith(s, [NoFilters EXCEPT !.searchQuery = text], {},
                                 "loadProducts")

\* The category select, the condition select and the sort select: the state
\* changes and the effect runs loadProducts.
SetFilterCategory(s) ==
    /\ route[s] = "home"
    /\ \E c \in categories \ {filters[s].filterCategory} :
        LoadProductsWith(s, [filters[s] EXCEPT !.filterCategory = c], products[s],
                         "loadProducts")

SetFilterCondition(s) ==
    /\ route[s] = "home"
    /\ \E c \in conditions \ {filters[s].filterCondition} :
        LoadProductsWith(s, [filters[s] EXCEPT !.filterCondition = c], products[s],
                         "loadProducts")

SetSortBy(s) ==
    /\ route[s] = "home"
    /\ \E k \in SortKeys \ {filters[s].sortBy} :
        LoadProductsWith(s, [filters[s] EXCEPT !.sortBy = k], products[s],
                         "loadProducts")

\* loadProducts await by await, for invocations that overlap: the header's
\* search form stays on the screen while the listing shows its skeleton.  A
\* call starts with setLoading(true) and the query of the filter state f; the
\* calls in flight are kept by their filter states.
BeginLoadProductsWith(s, f) ==
    /\ calls[s].op \in {"none", "loadProducts"}
    /\ calls[s].op = "loadProducts" => f \notin calls[s].pending
    /\ calls' = [calls EXCEPT ![s] =
          [op |-> "loadProducts",
           pending |-> (IF @.op = "none" THEN {} ELSE @.pending) \cup {f}]]
    /\ filters' = [filters EXCEPT ![s] = f]
    /\ ev' = Event("loadProducts", s, "started", Null, 0)
    /\ UNCHANGED <<db, now, authVars>>

\* HomePage mounts at "/" and its effect starts loadProducts.
BeginLoadProducts(s) ==
    /\ calls[s] = NoCall
    /\ route[s] # "home" \/ flags[s] = Mounted
    /\ ShopPage(s, "home", {}, NoProduct, 1, <<>>, NoDiscount, FALSE)
    /\ earnings' = [earnings EXCEPT ![s] = <<>>]
    /\ stats' = [stats EXCEPT ![s] = NoStats]
    /\ flags' = [flags EXCEPT ![s] = [Idle EXCEPT !.loading = TRUE]]
    /\ BeginLoadProductsWith(s, NoFilters)

\* Header.handleSearch while HomePage is mounted: the search parameter
\* changes and the effect starts loadProducts.
BeginHandleSearch(s) ==
    /\ route[s] = "home"
    /\ \E text \in SearchTexts \ {filters[s].searchQuery} :
        BeginLoadProductsWith(s, [filters[s] EXCEPT !.searchQuery = text])
    /\ flags' = [flags EXCEPT ![s].loading = TRUE]
    /\ UNCHANGED <<route, products, product, quantity, cartItems, appliedDiscount,
                   orderComplete, earnings, stats>>

\* One loadProducts call in flight ends: its list call resolves and the rows
\* replace the listing, or it throws; finally setLoading(false).
FinishLoadProducts(s) ==
    /\ calls[s].op = "loadProducts"
    /\ \E f \in calls[s].pending, fail \in BOOLEAN :
        \E rows \in ListProducts(db, BuildQuery(f), f.sortBy, ListLimit) :
            /\ products' = [products EXCEPT ![s] =
                   IF fail THEN @ ELSE {MapProduct(r) : r \in rows}]
            /\ calls' = [calls EXCEPT ![s] =
                   IF @.pending = {f} THEN NoCall
                   ELSE [@ EXCEPT !.pending = @ \ {f}]]
            /\ ev' = Event("loadProducts", s, IF fail THEN "error" ELSE "ok", Null, 0)
    /\ flags' = [flags EXCEPT ![s].loading = FALSE]
    /\ UNCHANGED <<db, now, authVars, route, product, quantity, cartItems,
                   appliedDiscount, orderComplete, filters, earnings, stats>>

\* A slip in the listing's addToCart: the lookup of an existing row left out.
HomeAddToCartAlwaysCreates(d, u, item) ==
    IF item.stockQuantity <= 0 THEN [db |-> d, out |-> "out_of_stock"]
    ELSE [db |-> [d EXCEPT !.cartItems = @ \cup {NewCartRow(d, u, item.id, Null, 1)}],
          out |-> "created"]

\* A slip in the listing's addToCart: an existing row is incremented without
\* the check against the stock.
HomeAddToCartNoStockCheck(d, u, item) ==
    LET existingItems == CartRowsOf(d, u, item.id) IN
    IF item.stockQuantity <= 0 THEN [db |-> d, out |-> "out_of_stock"]
    ELSE IF existingItems # {}
    THEN LET row == FirstRow(existingItems) IN
         [db |-> [d EXCEPT !.cartItems = SetQuantity(@, row.id, row.quantity + 1)],
          out |-> "updated"]
    ELSE [db |-> [d EXCEPT !.cartItems = @ \cup {NewCartRow(d, u, item.id, Null, 1)}],
          out |-> "created"]

\* A slip in the listing's addToCart: the quantity is written before the
\* stock check.
HomeAddToCartChecksAfterWrite(d, u, item) ==
    LET existingItems == CartRowsOf(d, u, item.id) IN
    IF item.stockQuantity <= 0 THEN [db |-> d, out |-> "out_of_stock"]
    ELSE IF existingItems # {}
    THEN LET row == FirstRow(existingItems)
             newQuantity == row.quantity + 1
         IN [db |-> [d EXCEPT !.cartItems = SetQuantity(@, row.id, newQuantity)],
             out |-> IF newQuantity > item.stockQuantity
                     THEN "insufficient" ELSE "updated"]
    ELSE [db |-> [d EXCEPT !.cartItems = @ \cup {NewCartRow(d, u, item.id, Null, 1)}],
          out |-> "created"]

\* HomePage.addToCart(product): what it writes and how it ends.
HomeAddToCartResult(d, u, item) ==
    LET existingItems == CartRowsOf(d, u, item.id) IN
    IF item.stockQuantity <= 0 THEN [db |-> d, out |-> "out_of_stock"]
    ELSE IF existingItems # {}
    THEN LET row == FirstRow(existingItems)
             newQuantity == row.quantity + 1
         IN IF newQuantity > item.stockQuantity
            THEN [db |-> d, out |-> "insufficient"]
            ELSE [db |-> [d EXCEPT !.cartItems = SetQuantity(@, row.id, newQuantity)],
                  out |-> "updated"]
    ELSE [db |-> [d EXCEPT !.cartItems = @ \cup {NewCartRow(d, u, item.id, Null, 1)}],
          out |-> "created"]

HomeAddToCart(s) ==
    /\ route[s] = "home"
    /\ \E item \in products[s], fail \in BOOLEAN :
        LET res == HomeAddToCartResult(db, authUser[s], item) IN
        IF fail /\ res.out # "out_of_stock"
        THEN /\ db' = db
             /\ ev' = Event("HomePage.addToCart", s, "error", item.id, 1)
        ELSE /\ db' = res.db
             /\ ev' = Event("HomePage.addToCart", s, res.out, item.id, 1)
    /\ UNCHANGED <<now, authVars, calls, flags, pageVars>>

\* HomePage.addToCart await by await, for invocations that overlap (two tabs
\* of one user, or two clicks: the button is not disabled while a call is in
\* flight).  The first step runs up to the resolved cartItems.list and keeps
\* the rows it read; the second step decides and writes from those rows.
BeginAddToCart(s) ==
    /\ route[s] = "home"
    /\ calls[s] = NoCall
    /\ \E item \in products[s] :
        IF item.stockQuantity <= 0
        THEN /\ calls' = calls
             /\ ev' = Event("HomePage.addToCart", s, "out_of_stock", item.id, 1)
        ELSE /\ calls' = [calls EXCEPT ![s] =
                    [op |-> "addToCart", user |-> authUser[s], item |-> item,
                     existingItems |-> CartRowsOf(db, authUser[s], item.id)]]
             /\ ev' = Event("HomePage.addToCart", s, "listed", item.id, 1)
    /\ UNCHANGED <<db, now, authVars, flags, pageVars>>

FinishAddToCart(s) ==
    /\ calls[s].op = "addToCart"
    /\ LET call == calls[s]
           existingItems == call.existingItems
       IN IF existingItems # {}
          THEN LET row == FirstRow(existingItems)
                   newQuantity == row.quantity + 1
               IN IF newQuantity > call.item.stockQuantity
                  THEN /\ db' = db
                       /\ ev' = Event("HomePage.addToCart", s, "insufficient",
                                      call.item.id, 1)
                  ELSE /\ db' = [db EXCEPT
                                   !.cartItems = SetQuantity(@, row.id, newQuantity)]
                       /\ ev' = Event("HomePage.addToCart", s, "updated",
                                      call.item.id, 1)
          ELSE /\ db' = [db EXCEPT !.cartItems =
                            @ \cup {NewCartRow(db, call.user, call.item.id, Null, 1)}]
               /\ ev' = Event("HomePage.addToCart", s, "created", call.item.id, 1)
    /\ calls' = [calls EXCEPT ![s] = NoCall]
    /\ UNCHANGED <<now, authVars, flags, pageVars>>

(***************************************************************************)
(* The product detail page.                                                *)
(***************************************************************************)
MAX_SELECT == 10

\* ProductDetails mounts for /product/:id and its effect loads the product;
\* a missing product redirects to the listing.
LoadProduct(s, p) ==
    /\ \E fail \in BOOLEAN :
        LET rows == ProductRows(db, p) IN
        IF fail
        THEN /\ SetPage(s, "product", {}, NoProduct, 1, <<>>, NoDiscount, FALSE)
             /\ ev' = Event("loadProduct", s, "error", Null, 0)
        ELSE IF rows = {}
        THEN /\ SetPage(s, "home", {}, NoProduct, 1, <<>>, NoDiscount, FALSE)
             /\ ev' = Event("loadProduct", s, "not_found", Null, 0)
        ELSE /\ SetPage(s, "product", {}, MapProduct(OnlyRow(rows)), 1, <<>>,
                        NoDiscount, FALSE)
             /\ ev' = Event("loadProduct", s, "ok", Null, 0)
    /\ UNCHANGED <<db, now, authVars, calls>>

\* The quantity select offers 1..min(10, stock).
SelectQuantity(s) ==
    /\ route[s] = "product"
    /\ product[s].id # Null
    /\ \E q \in 1..Min(MAX_SELECT, product[s].stockQuantity) :
        /\ q # quantity[s]
        /\ quantity' = [quantity EXCEPT ![s] = q]
        /\ ev' = Event("setQuantity", s, "ok", Null, 0)
    /\ UNCHANGED <<db, now, authVars, calls, flags, route, products, product, cartItems,
                   appliedDiscount, orderComplete,
                   filters, earnings, stats>>

\* A slip in the product page's addToCart: the check of the combined
\* quantity left out.
DetailAddToCartNoCombinedCheck(d, u, item, q) ==
    LET existingItems == CartRowsOf(d, u, item.id) IN
    IF item.stockQuantity <= 0 THEN [db |-> d, out |-> "out_of_stock"]
    ELSE IF q > item.stockQuantity THEN [db |-> d, out |-> "insufficient_local"]
    ELSE IF existingItems # {}
    THEN LET row == FirstRow(existingItems) IN
         [db |-> [d EXCEPT !.cartItems = SetQuantity(@, row.id, row.quantity + q)],
          out |-> "updated"]
    ELSE [db |-> [d EXCEPT !.cartItems = @ \cup {NewCartRow(d, u, item.id, Null, q)}],
          out |-> "created"]

\* ProductDetails.addToCart(): what it writes and how it ends.
DetailAddToCartResult(d, u, item, q) ==
    LET existingItems == CartRowsOf(d, u, item.id) IN
    IF item.stockQuantity <= 0 THEN [db |-> d, out |-> "out_of_stock"]
    ELSE IF q > item.stockQuantity THEN [db |-> d, out |-> "insufficient_local"]
    ELSE IF existingItems # {}
    THEN LET row == FirstRow(existingItems)
             newQuantity == row.quantity + q
         IN IF newQuantity > item.stockQuantity
            THEN [db |-> d, out |-> "insufficient"]
            ELSE [db |-> [d EXCEPT !.cartItems = SetQuantity(@, row.id, newQuantity)],
                  out |-> "updated"]
    ELSE [db |-> [d EXCEPT !.cartItems = @ \cup {NewCartRow(d, u, item.id, Null, q)}],
          out |-> "created"]

DetailAddToCart(s) ==
    /\ route[s] = "product"
    /\ product[s].id # Null
    /\ \E fail \in BOOLEAN :
        LET res == DetailAddToCartResult(db, authUser[s], product[s], quantity[s]) IN
        IF fail /\ res.out \notin {"out_of_stock", "insufficient_local"}
        THEN /\ db' = db
             /\ ev' = Event("ProductDetails.addToCart", s, "error", product[s].id,
                            quantity[s])
        ELSE /\ db' = res.db
             /\ ev' = Event("ProductDetails.addToCart", s, res.out, product[s].id,
                            quantity[s])
    /\ UNCHANGED <<now, authVars, calls, flags, pageVars>>

(***************************************************************************)
(* The book detail page.                                                   *)
(***************************************************************************)
\* BookDetails mounts and its effect loads the book.
LoadBook(s, b) ==
    /\ SetPage(s, "book", {}, [id |-> b, price |-> 0, stockQuantity |-> 0], 1,
               <<>>, NoDiscount, FALSE)
    /\ ev' = Event("loadBook", s, "ok", Null, 0)
    /\ UNCHANGED <<db, now, authVars, calls>>

\* BookDetails.addToCart(): no stock check at all.
BookAddToCartResult(d, u, b) ==
    LET existingItems == BookRowsOf(d, u, b) IN
    IF existingItems # {}
    THEN LET row == FirstRow(existingItems) IN
         [db |-> [d EXCEPT !.cartItems = SetQuantity(@, row.id, row.quantity + 1)],
          out |-> "updated"]
    ELSE [db |-> [d EXCEPT !.cartItems = @ \cup {NewCartRow(d, u, Null, b, 1)}],
          out |-> "created"]

BookAddToCart(s) ==
    /\ route[s] = "book"
    /\ product[s].id # Null
    /\ \A r \in BookRowsOf(db, authUser[s], product[s].id) :
          r.quantity < MaxBookQuantity
    /\ \E fail \in BOOLEAN :
        LET res == BookAddToCartResult(db, authUser[s], product[s].id) IN
        IF fail
        THEN /\ db' = db
             /\ ev' = Event("BookDetails.addToCart", s, "error", product[s].id, 1)
        ELSE /\ db' = res.db
             /\ ev' = Event("BookDetails.addToCart", s, res.out, product[s].id, 1)
    /\ UNCHANGED <<now, authVars, calls, flags, pageVars>>

(***************************************************************************)
(* The cart page and the cart loading the checkout page shares.            *)
(***************************************************************************)
\* One cart row joined with its product (product: null when it is gone).
JoinLine(d, item) ==
    LET rows == ProductRows(d, item.product_id) IN
    [id |-> item.id, productId |-> item.product_id, quantity |-> item.quantity,
     hasProduct |-> rows # {},
     price |-> IF rows = {} THEN 0 ELSE OnlyRow(rows).price,
     stockQuantity |-> IF rows = {} THEN 0 ELSE OnlyRow(rows).stock_quantity]

\* A slip: the rows whose product is gone are kept.
ValidItemsUnfiltered(d, u) ==
    [i \in 1..Cardinality(CartOf(d, u)) |-> JoinLine(d, ByIdDesc(CartOf(d, u))[i])]

\* validItems: the user's rows, joined, without those whose product is gone.
ValidItems(d, u) ==
    SelectSeq([i \in 1..Cardinality(CartOf(d, u)) |->
                  JoinLine(d, ByIdDesc(CartOf(d, u))[i])],
              LAMBDA line : line.hasProduct)

\* Cart mounts and its effect runs loadCartItems.
LoadCart(s) ==
    /\ \E fail \in BOOLEAN :
        /\ SetPage(s, "cart", {}, NoProduct, 1,
                   IF fail THEN <<>> ELSE ValidItems(db, authUser[s]),
                   NoDiscount, FALSE)
        /\ ev' = Event("Cart.loadCartItems", s, IF fail THEN "error" ELSE "ok",
                       Null, 0)
    /\ UNCHANGED <<db, now, authVars, calls>>

\* validItems of the cart page when the product lookups of the rows in lost
\* throw: the row's own catch hands back product: null, as for a product that
\* is gone, and the filter drops the row.
ValidItemsCaught(d, u, lost) ==
    SelectSeq(ValidItems(d, u), LAMBDA line : line.id \notin lost)

\* Cart mounts and its effect runs loadCartItems; the list of the rows
\* resolves and the product lookup of at least one row throws.
LoadCartLookupThrows(s) ==
    /\ \E lost \in SUBSET {r.id : r \in CartOf(db, authUser[s])} :
        /\ lost # {}
        /\ SetPage(s, "cart", {}, NoProduct, 1,
                   ValidItemsCaught(db, authUser[s], lost), NoDiscount, FALSE)
        /\ ev' = Event("Cart.loadCartItems", s, "caught", Null, Cardinality(lost))
    /\ UNCHANGED <<db, now, authVars, calls>>

LineIds(s) == {cartItems[s][i].id : i \in 1..Len(cartItems[s])}

LineOf(s, itemId) == CHOOSE line \in RangeOf(cartItems[s]) : line.id = itemId

\* A slip: the check against the stock left out.
UpdateQuantityOutcomeNoStockCheck(s, itemId, newQuantity) ==
    IF newQuantity < 1 THEN "ignored"
    ELSE IF itemId \notin LineIds(s) THEN "not_found"
    ELSE "updated"

\* Cart.updateQuantity(itemId, newQuantity): how it ends.
UpdateQuantityOutcome(s, itemId, newQuantity) ==
    IF newQuantity < 1 THEN "ignored"
    ELSE IF itemId \notin LineIds(s) THEN "not_found"
    ELSE IF newQuantity > LineOf(s, itemId).stockQuantity THEN "insufficient"
    ELSE "updated"

UpdateQuantity(s) ==
    /\ route[s] = "cart"
    /\ \E itemId \in LineIds(s) \cup {0}, newQuantity \in 0..(MaxStock + 1),
          fail \in BOOLEAN :
        LET out == UpdateQuantityOutcome(s, itemId, newQuantity) IN
        IF out = "updated" /\ ~fail
        THEN /\ db' = [db EXCEPT !.cartItems = SetQuantity(@, itemId, newQuantity)]
             /\ cartItems' = [cartItems EXCEPT ![s] =
                   [i \in 1..Len(@) |->
                       IF @[i].id = itemId
                       THEN [@[i] EXCEPT !.quantity = newQuantity] ELSE @[i]]]
             /\ ev' = Event("Cart.updateQuantity", s, out, Null, 0)
        ELSE /\ UNCHANGED <<db, cartItems>>
             /\ ev' = Event("Cart.updateQuantity", s,
                            IF out = "updated" THEN "error" ELSE out,
                            Null, 0)
    /\ UNCHANGED <<now, authVars, calls, flags, route, products, product, quantity,
                   appliedDiscount, orderComplete,
                   filters, earnings, stats>>

\* Cart.removeItem(itemId)
RemoveItem(s) ==
    /\ route[s] = "cart"
    /\ \E itemId \in LineIds(s), fail \in BOOLEAN :
        IF fail
        THEN /\ UNCHANGED <<db, cartItems>>
             /\ ev' = Event("Cart.removeItem", s, "error", Null, 0)
        ELSE /\ db' = [db EXCEPT !.cartItems = {r \in @ : r.id # itemId}]
             /\ cartItems' = [cartItems EXCEPT ![s] =
                                 SelectSeq(@, LAMBDA line : line.id # itemId)]
             /\ ev' = Event("Cart.removeItem", s, "ok", Null, 0)
    /\ UNCHANGED <<now, authVars, calls, flags, route, products, product, quantity,
                   appliedDiscount, orderComplete,
                   filters, earnings, stats>>

\* calculateSubtotal() of Cart and of Checkout
CalculateSubtotal(items) ==
    SumSeq([i \in 1..Len(items) |-> items[i].price * items[i].quantity])

\* A slip in the total: the clamp at zero left out.
CalculateTotalUnclamped(items, discount) ==
    CalculateSubtotal(items) - discount.amount

\* calculateTotal() of Cart and of Checkout
CalculateTotal(items, discount) ==
    Max(0, CalculateSubtotal(items) - discount.amount)

(***************************************************************************)
(* The discount code widget (on the cart and on the checkout page).        *)
(***************************************************************************)
\* What a user can type into the code input.
Typed == {"save10", "big", "nope", " "}

\* String.toUpperCase()
ToUpperCase(t) ==
    CASE t = "save10" -> "SAVE10"
      [] t = "big" -> "BIG"
      [] t = "nope" -> "NOPE"
      [] OTHER -> t

\* String.trim()
Trim(t) == IF t = " " THEN "" ELSE t

\* list({where: {code, isActive: "1"}, limit: 1}) on discountCodes
ActiveCodes(d, code) == {c \in d.discountCodes : c.code = code /\ c.is_active}

\* list({where: {discountCodeId, userId}, limit: 1}) on discountCodeUses
ExistingUses(d, codeId, u) ==
    {x \in d.discountCodeUses : x.discount_code_id = codeId /\ x.user_id = u}

\* discountCode.expiresAt && new Date(discountCode.expiresAt) < new Date()
Expired(c, t) == c.expires_at # <<>> /\ c.expires_at[1] < t

\* A slip in the limit check: > where the code has >=.
LimitReachedOffByOne(c) == c.max_uses # 0 /\ c.current_uses > c.max_uses

\* discountCode.maxUses && discountCode.currentUses >= discountCode.maxUses
LimitReached(c) == c.max_uses # 0 /\ c.current_uses >= c.max_uses

\* subtotal < discountCode.minimumOrderAmount
BelowMinimum(c, subtotal) == subtotal < c.minimum_order_amount

\* existingUses.length > 0
AlreadyUsed(d, c, u) == ExistingUses(d, c.id, u) # {}

\* A slip in the amount: the cap at the subtotal left out.
DiscountAmountUncapped(c, subtotal) ==
    IF c.discount_type = "percentage"
    THEN (subtotal * c.discount_value) \div 100
    ELSE c.discount_value

\* The discount amount: percentage or fixed, capped at the subtotal.
DiscountAmount(c, subtotal) ==
    Min(IF c.discount_type = "percentage"
        THEN (subtotal * c.discount_value) \div 100
        ELSE c.discount_value,
        subtotal)

\* DiscountCode.validateAndApplyDiscount: how it ends for the typed text.
ValidateOutcome(d, t, u, typed, subtotal) ==
    LET code == ToUpperCase(typed)
        found == ActiveCodes(d, ToUpperCase(code))
    IN IF Trim(code) = "" THEN "empty"
       ELSE IF found = {} THEN "invalid"
       ELSE LET c == OnlyRow(found) IN
            IF Expired(c, t) THEN "expired"
            ELSE IF LimitReached(c) THEN "limit_reached"
            ELSE IF BelowMinimum(c, subtotal) THEN "minimum_not_met"
            ELSE IF AlreadyUsed(d, c, u) THEN "already_used"
            ELSE "applied"

\* The discount handed to onDiscountApplied.
DiscountFor(d, typed, subtotal) ==
    LET c == OnlyRow(ActiveCodes(d, ToUpperCase(ToUpperCase(typed))))
    IN [code |-> c.code, amount |-> DiscountAmount(c, subtotal)]

ValidateAndApplyDiscount(s) ==
    /\ route[s] \in {"cart", "checkout"}
    /\ ~orderComplete[s]
    /\ appliedDiscount[s] = NoDiscount
    /\ \E typed \in Typed, fail \in BOOLEAN :
        LET subtotal == CalculateSubtotal(cartItems[s])
            out == ValidateOutcome(db, now, authUser[s], typed, subtotal)
            e == [Event("validateAndApplyDiscount", s, out, Null, 0)
                     EXCEPT !.code = ToUpperCase(typed)]
        IN IF fail /\ out # "empty"
           THEN /\ UNCHANGED appliedDiscount
                /\ ev' = [e EXCEPT !.out = "error", !.dbCalls = 0]
           ELSE /\ appliedDiscount' = [appliedDiscount EXCEPT ![s] =
                      IF out = "applied" THEN DiscountFor(db, typed, subtotal)
                      ELSE @]
                /\ ev' = e
    /\ UNCHANGED <<db, now, authVars, calls, flags, route, products, product, quantity,
                   cartItems, orderComplete,
                   filters, earnings, stats>>

\* DiscountCode.removeDiscount
RemoveDiscount(s) ==
    /\ route[s] \in {"cart", "checkout"}
    /\ ~orderComplete[s]
    /\ appliedDiscount[s] # NoDiscount
    /\ appliedDiscount' = [appliedDiscount EXCEPT ![s] = NoDiscount]
    /\ ev' = Event("removeDiscount", s, "ok", Null, 0)
    /\ UNCHANGED <<db, now, authVars, calls, flags, route, products, product, quantity,
                   cartItems, orderComplete,
                   filters, earnings, stats>>

(***************************************************************************)
(* The checkout page.                                                      *)
(***************************************************************************)
\* "Proceed to Checkout": navigate('/checkout', {state: {appliedDiscount}}),
\* Checkout mounts, loads the cart and takes the discount from location.state;
\* with no valid line, or when the load throws, it navigates back to /cart.
ProceedToCheckout(s) ==
    /\ route[s] = "cart"
    /\ cartItems[s] # <<>>
    /\ \E fail \in BOOLEAN :
        LET validItems == ValidItems(db, authUser[s]) IN
        IF fail \/ validItems = <<>>
        THEN /\ SetPage(s, "cart", {}, NoProduct, 1, <<>>, NoDiscount, FALSE)
             /\ ev' = Event("Checkout.loadCartItems", s,
                            IF fail THEN "error" ELSE "empty", Null, 0)
        ELSE /\ SetPage(s, "checkout", {}, NoProduct, 1, validItems,
                        appliedDiscount[s], FALSE)
             /\ ev' = Event("Checkout.loadCartItems", s, "ok", Null, 0)
    /\ UNCHANGED <<db, now, authVars, calls>>

COMMISSION_PERCENT == 5

\* A slip in the validation: a line asking for all of the stock is refused.
StockValidationErrorsStrict(d, items) ==
    {i \in 1..Len(items) :
        \/ ~items[i].hasProduct
        \/ ProductRows(d, items[i].productId) = {}
        \/ OnlyRow(ProductRows(d, items[i].productId)).stock_quantity
              <= items[i].quantity}

\* A slip in the validation: the stock the page loaded is compared, no fresh
\* product row is fetched.
StockValidationErrorsFromPage(d, items) ==
    {i \in 1..Len(items) :
        \/ ~items[i].hasProduct
        \/ items[i].stockQuantity < items[i].quantity}

\* stockValidationErrors: the lines whose freshly fetched product is gone or
\* has less stock than the line asks for.
StockValidationErrors(d, items) ==
    {i \in 1..Len(items) :
        \/ ~items[i].hasProduct
        \/ ProductRows(d, items[i].productId) = {}
        \/ OnlyRow(ProductRows(d, items[i].productId)).stock_quantity
              < items[i].quantity}

\* A slip: the stock is written without the clamp at zero.
NewStockUnclamped(d, item) == item.stockQuantity - item.quantity

\* The stock the checkout writes for a line.
NewStock(d, item) == Max(0, item.stockQuantity - item.quantity)

\* "Create seller earnings record": the amounts of a line in pence.
EarningAmounts(unitPrice, qty) ==
    LET totalEarnings == unitPrice * qty
        commissionAmount == (totalEarnings * COMMISSION_PERCENT) \div 100
    IN [total_earnings |-> totalEarnings,
        commission_rate |-> COMMISSION_PERCENT,
        commission_amount |-> commissionAmount,
        net_earnings |-> totalEarnings - commissionAmount]

\* The same amounts as Numbers: unitPrice * item.quantity, 0.05,
\* totalEarnings * commissionRate, totalEarnings - commissionAmount.
EarningAmountsNumber(unitPrice, qty) ==
    LET totalEarnings == Times(unitPrice, FromInt(qty))
        commissionRate == FromCents(COMMISSION_PERCENT)
        commissionAmount == Times(totalEarnings, commissionRate)
    IN [total_earnings |-> totalEarnings,
        commission_rate |-> commissionRate,
        commission_amount |-> commissionAmount,
        net_earnings |-> Minus(totalEarnings, commissionAmount)]

\* The backend writes of one line, in the order the loop awaits them.
LineWritesWith(d, orderId, item, amounts) ==
    LET totalEarnings == amounts.total_earnings
        commissionAmount == amounts.commission_amount
        owners == ProductRows(d, item.productId)
    IN  <<[op |-> "createOrderItem",
           row |-> [id |-> 0, order_id |-> orderId, product_id |-> item.productId,
                    quantity |-> item.quantity, price |-> item.price]]>>
        \o (IF item.hasProduct
            THEN <<[op |-> "updateStock", id |-> item.productId,
                    stock |-> NewStock(d, item)]>>
                 \o (IF owners # {}
                     THEN <<[op |-> "createEarning",
                             row |-> [id |-> 0,
                                      seller_id |-> OnlyRow(owners).user_id,
                                      order_id |-> orderId,
                                      product_id |-> item.productId,
                                      quantity |-> item.quantity,
                                      unit_price |-> item.price,
                                      total_earnings |-> totalEarnings,
                                      commission_rate |-> amounts.commission_rate,
                                      commission_amount |-> commissionAmount,
                                      net_earnings |-> amounts.net_earnings,
                                      status |-> "available"]]>>
                     ELSE <<>>)
            ELSE <<>>)

LineWrites(d, orderId, item) ==
    LineWritesWith(d, orderId, item, EarningAmounts(item.price, item.quantity))

RECURSIVE AllLineWrites(_, _, _)
AllLineWrites(d, orderId, items) ==
    IF items = <<>> THEN <<>>
    ELSE LineWrites(d, orderId, Head(items)) \o AllLineWrites(d, orderId, Tail(items))

\* A guard the code does not have: no usage is recorded for a code that has
\* reached its limit.
DiscountWritesGuarded(d, u, orderId, discount) ==
    LET found == {c \in d.discountCodes : c.code = discount.code} IN
    IF discount = NoDiscount \/ found = {} \/ LimitReached(OnlyRow(found)) THEN <<>>
    ELSE LET c == OnlyRow(found) IN
         <<[op |-> "createUse",
            row |-> [id |-> 0, discount_code_id |-> c.id, user_id |-> u,
                     order_id |-> orderId, discount_amount |-> discount.amount]],
           [op |-> "updateUses", id |-> c.id, uses |-> c.current_uses + 1]>>

\* "Record discount usage if applied": the usage row, then the counter.
DiscountWrites(d, u, orderId, discount) ==
    LET found == {c \in d.discountCodes : c.code = discount.code} IN
    IF discount = NoDiscount \/ found = {} THEN <<>>
    ELSE LET c == OnlyRow(found) IN
         <<[op |-> "createUse",
            row |-> [id |-> 0, discount_code_id |-> c.id, user_id |-> u,
                     order_id |-> orderId, discount_amount |-> discount.amount]],
           [op |-> "updateUses", id |-> c.id, uses |-> c.current_uses + 1]>>

\* "Clear cart": one delete per loaded line.
ClearWrites(items) ==
    [i \in 1..Len(items) |-> [op |-> "deleteCartItem", id |-> items[i].id]]

\* Every backend write of a submission, in program order.
SubmitWrites(d, u, items, discount) ==
    LET orderId == FreshId(d.orders) IN
    <<[op |-> "createOrder",
       row |-> [id |-> orderId, user_id |-> u,
                total_amount |-> CalculateTotal(items, discount),
                subtotal_amount |-> CalculateSubtotal(items),
                discount_amount |-> discount.amount,
                discount_code |-> discount.code]]>>
    \o AllLineWrites(d, orderId, items)
    \o DiscountWrites(d, u, orderId, discount)
    \o ClearWrites(items)

\* The backend after one write.
ApplyWrite(d, w) ==
    CASE w.op = "createOrder" -> [d EXCEPT !.orders = @ \cup {w.row}]
      [] w.op = "createOrderItem" ->
            [d EXCEPT !.orderItems = @ \cup {[w.row EXCEPT !.id = FreshId(d.orderItems)]}]
      [] w.op = "updateStock" -> [d EXCEPT !.products = SetStock(@, w.id, w.stock)]
      [] w.op = "createEarning" ->
            [d EXCEPT !.sellerEarnings =
                @ \cup {[w.row EXCEPT !.id = FreshId(d.sellerEarnings)]}]
      [] w.op = "createUse" ->
            [d EXCEPT !.discountCodeUses =
                @ \cup {[w.row EXCEPT !.id = FreshId(d.discountCodeUses)]}]
      [] w.op = "updateUses" ->
            [d EXCEPT !.discountCodes =
                {IF c.id = w.id THEN [c EXCEPT !.current_uses = w.uses] ELSE c : c \in @}]
      [] w.op = "deleteCartItem" -> [d EXCEPT !.cartItems = {r \in @ : r.id # w.id}]
      [] w.op = "createPayoutRequest" ->
            [d EXCEPT !.payoutRequests = @ \cup {w.row}]
      [] w.op = "createPayoutItem" ->
            [d EXCEPT !.payoutItems = @ \cup {[w.row EXCEPT !.id = FreshId(d.payoutItems)]}]
      [] w.op = "updateEarning" ->
            [d EXCEPT !.sellerEarnings =
                {IF e.id = w.id THEN [e EXCEPT !.status = w.status] ELSE e : e \in @}]

\* The backend after the first k writes of ws.
RECURSIVE ApplyWrites(_, _, _)
ApplyWrites(d, ws, k) ==
    IF k = 0 \/ ws = <<>> THEN d
    ELSE ApplyWrites(ApplyWrite(d, Head(ws)), Tail(ws), k - 1)

\* The points at which a submission can end: after all its writes (no call
\* throws), before its first write (a call throws early), and, with partial,
\* after any number of writes in between.
EndPoints(ws, partial) == IF partial THEN 0..Len(ws) ELSE {0, Len(ws)}

\* Checkout.handleSubmit.  formOk: the four required fields are filled;
\* k: the number of writes that resolve before a call throws (all: none throws).
HandleSubmitWith(s, partial) ==
    /\ route[s] = "checkout"
    /\ ~orderComplete[s]
    /\ Cardinality(db.orders) < MaxOrders
    /\ \E formOk \in BOOLEAN :
        LET ws == SubmitWrites(db, authUser[s], cartItems[s], appliedDiscount[s]) IN
        \E k \in EndPoints(ws, partial) :
            IF ~formOk
            THEN /\ k = 0
                 /\ ev' = Event("handleSubmit", s, "invalid_form", Null, 0)
                 /\ UNCHANGED <<db, orderComplete>>
            ELSE IF StockValidationErrors(db, cartItems[s]) # {}
            THEN /\ ev' = Event("handleSubmit", s,
                                IF k = 0 THEN "error" ELSE "stock_failed", Null, 0)
                 /\ UNCHANGED <<db, orderComplete>>
            ELSE /\ db' = ApplyWrites(db, ws, k)
                 /\ orderComplete' = [orderComplete EXCEPT ![s] = (k = Len(ws))]
                 /\ ev' = Event("handleSubmit", s,
                                IF k = Len(ws) THEN "ok" ELSE "error", Null, 0)
    /\ UNCHANGED <<now, authVars, calls, flags, route, products, product, quantity, cartItems,
                   appliedDiscount,
                   filters, earnings, stats>>

HandleSubmit(s) == HandleSubmitWith(s, FALSE)

\* Checkout.handleSubmit await by await, for submissions that overlap with
\* other handlers.  The call in flight remembers the user blink.auth.me()
\* resolved to, the order id it generated, how many of its steps are done and
\* the counter update it has computed from the code row it read.
SubmitCall(u) == [op |-> "handleSubmit", user |-> u, orderId |-> 0, pc |-> 0,
                  pending |-> <<>>]

\* The awaited writes of a submission in program order: the order, then per
\* line the order item, the stock and the earning, then the usage row and the
\* counter of an applied discount, then one delete per loaded line.
\* A loop body the code does not have: the stock is written before the order
\* item is created.
LineStepsStockFirst(i, n) ==
    IF i > n THEN <<>>
    ELSE [j \in 1..(3 * (n - i + 1)) |->
            [kind |-> <<"updateStock", "createOrderItem", "createEarning">>[((j - 1) % 3) + 1],
             i |-> i + ((j - 1) \div 3)]]

RECURSIVE LineSteps(_, _)
LineSteps(i, n) ==
    IF i > n THEN <<>>
    ELSE <<[kind |-> "createOrderItem", i |-> i], [kind |-> "updateStock", i |-> i],
           [kind |-> "createEarning", i |-> i]>> \o LineSteps(i + 1, n)

SubmitSteps(items, discount) ==
    <<[kind |-> "createOrder", i |-> 0]>>
    \o LineSteps(1, Len(items))
    \o (IF discount # NoDiscount
        THEN <<[kind |-> "createUse", i |-> 0], [kind |-> "updateUses", i |-> 0]>>
        ELSE <<>>)
    \o [j \in 1..Len(items) |-> [kind |-> "deleteCartItem", i |-> j]]

\* What a step writes, computed from the backend as it is when the step runs
\* (none when its condition skips it): the product row for the seller is read
\* right before the earning, the code row right before the usage row, and the
\* counter update was computed from that same read.
StepWrites(d, call, items, discount, step) ==
    LET lw == LineWrites(d, call.orderId, items[step.i])
        dw == DiscountWrites(d, call.user, call.orderId, discount)
    IN CASE step.kind = "createOrder" ->
                <<Head(SubmitWrites(d, call.user, items, discount))>>
         [] step.kind = "createOrderItem" -> <<lw[1]>>
         [] step.kind = "updateStock" -> IF Len(lw) >= 2 THEN <<lw[2]>> ELSE <<>>
         [] step.kind = "createEarning" -> IF Len(lw) >= 3 THEN <<lw[3]>> ELSE <<>>
         [] step.kind = "createUse" -> IF dw = <<>> THEN <<>> ELSE <<dw[1]>>
         [] step.kind = "updateUses" -> call.pending
         [] step.kind = "deleteCartItem" -> <<ClearWrites(items)[step.i]>>

\* The start of a submission: the form check, setProcessing(true), auth.me()
\* and the stock validation against freshly fetched product rows; a refusal
\* by the validation returns through the finally block.
BeginSubmit(s) ==
    /\ route[s] = "checkout"
    /\ ~orderComplete[s]
    /\ calls[s] = NoCall
    /\ Cardinality(db.orders) < MaxOrders
    /\ \E formOk \in BOOLEAN :
        LET out == IF ~formOk THEN "invalid_form"
                   ELSE IF StockValidationErrors(db, cartItems[s]) # {}
                   THEN "stock_failed" ELSE "validated"
        IN /\ calls' = [calls EXCEPT ![s] =
                           IF out = "validated" THEN SubmitCall(authUser[s]) ELSE @]
           /\ flags' = [flags EXCEPT ![s].processing = (out = "validated")]
           /\ ev' = Event("Checkout.handleSubmit", s, out, Null, 0)
    /\ UNCHANGED <<db, now, authVars, pageVars>>

\* A catch block the code does not have: it deletes the cart rows of the
\* loaded lines.
SubmitFailedClearsCart(s, call, step) ==
    /\ calls' = [calls EXCEPT ![s] = NoCall]
    /\ flags' = [flags EXCEPT ![s].processing = FALSE]
    /\ ev' = [Event("Checkout.handleSubmit", s, "error", Null, call.pc)
                 EXCEPT !.code = step.kind]
    /\ db' = ApplyWrites(db, ClearWrites(cartItems[s]), Len(cartItems[s]))
    /\ UNCHANGED orderComplete

\* The catch block of handleSubmit: an error notification; nothing is written,
\* no later statement of the try block runs; the finally block clears the flag.
SubmitFailed(s, call, step) ==
    /\ calls' = [calls EXCEPT ![s] = NoCall]
    /\ flags' = [flags EXCEPT ![s].processing = FALSE]
    /\ ev' = [Event("Checkout.handleSubmit", s, "error", Null, call.pc)
                 EXCEPT !.code = step.kind]
    /\ UNCHANGED <<db, orderComplete>>

\* The next awaited write of the submission in flight; canFail: the call may
\* throw instead, which ends the handler in its catch block.
SubmitStepWith(s, canFail) ==
    /\ calls[s].op = "handleSubmit"
    /\ \E fail \in {FALSE, canFail} :
        LET call == calls[s]
            steps == SubmitSteps(cartItems[s], appliedDiscount[s])
            step == steps[call.pc + 1]
            ws == StepWrites(db, call, cartItems[s], appliedDiscount[s], step)
            dw == DiscountWrites(db, call.user, call.orderId, appliedDiscount[s])
            last == call.pc + 1 = Len(steps)
        IN IF fail
           THEN SubmitFailed(s, call, step)
           ELSE /\ db' = ApplyWrites(db, ws, Len(ws))
                /\ calls' = [calls EXCEPT ![s] =
                      IF last THEN NoCall
                      ELSE [call EXCEPT
                              !.pc = @ + 1,
                              !.orderId = IF step.kind = "createOrder"
                                          THEN ws[1].row.id ELSE @,
                              !.pending = IF step.kind = "createUse" /\ dw # <<>>
                                          THEN <<dw[2]>> ELSE @]]
                /\ orderComplete' = [orderComplete EXCEPT ![s] = last]
                /\ flags' = [flags EXCEPT ![s].processing = ~last]
                /\ ev' = [Event("Checkout.handleSubmit", s,
                                IF last THEN "ok" ELSE "written", Null, call.pc + 1)
                             EXCEPT !.code = step.kind]
    /\ UNCHANGED <<now, authVars, route, products, product, quantity, cartItems,
                   appliedDiscount, filters, earnings, stats>>

SubmitStep(s) == SubmitStepWith(s, FALSE)

(***************************************************************************)
(* The admin dashboard, the clock, signing in.                             *)
(***************************************************************************)
\* The dashboard lists the products of the signed-in seller only
\* (loadProducts: where user_id = user.id); here that seller is seller1.
DashboardProducts(d) == {r \in d.products : r.user_id = "seller1"}

\* AdminDashboard.handleSubmit for a product being edited: the stock field.
\* formOk: the required fields (name, price) are filled.
AdminSaveProduct ==
    /\ \E r \in DashboardProducts(db), n \in 0..MaxStock, formOk \in BOOLEAN :
        /\ n # r.stock_quantity
        /\ IF formOk
           THEN /\ db' = [db EXCEPT !.products = SetStock(@, r.id, n)]
                /\ ev' = Event("AdminDashboard.handleSubmit", Null, "ok", Null, 0)
           ELSE /\ db' = db
                /\ ev' = Event("AdminDashboard.handleSubmit", Null, "invalid_form",
                               Null, 0)
    /\ UNCHANGED <<now, authVars, calls, flags, pageVars>>

\* AdminDashboard.handleDelete
AdminDeleteProduct ==
    /\ \E r \in DashboardProducts(db) :
        /\ db' = [db EXCEPT !.products = @ \ {r}]
        /\ ev' = Event("AdminDashboard.handleDelete", Null, "ok", Null, 0)
    /\ UNCHANGED <<now, authVars, calls, flags, pageVars>>

\* AdminDashboard.toggleDiscountStatus
ToggleDiscountStatus ==
    /\ \E c \in db.discountCodes :
        /\ db' = [db EXCEPT !.discountCodes =
                    {IF x.id = c.id THEN [x EXCEPT !.is_active = ~c.is_active] ELSE x
                        : x \in @}]
        /\ ev' = Event("toggleDiscountStatus", Null, "ok", Null, 0)
    /\ UNCHANGED <<now, authVars, calls, flags, pageVars>>

\* Time passes.
Tick ==
    /\ now < MaxTime
    /\ now' = now + 1
    /\ ev' = Event("tick", Null, "ok", Null, 0)
    /\ UNCHANGED <<db, authVars, calls, flags, pageVars>>

\* What the auth client can report: still loading, signed out, or a user.
AuthStates ==
    {[user |-> Null, isLoading |-> TRUE], [user |-> Null, isLoading |-> FALSE]}
        \cup {[user |-> u, isLoading |-> FALSE] : u \in Accounts}

\* App's onAuthStateChanged callback for the reported state: user and loading
\* are taken over, isAdmin is recomputed only when the state carries a user
\* with an email.  While loading, or with no user, the router is not
\* rendered; when a user arrives it is mounted on the listing.
OnAuthStateChangedTo(s, state) ==
    /\ authUser' = [authUser EXCEPT ![s] = state.user]
    /\ loading' = [loading EXCEPT ![s] = state.isLoading]
    /\ isAdmin' = [isAdmin EXCEPT ![s] =
                      IF state.user # Null /\ EmailOf(state.user) # ""
                      THEN IsAdmin(EmailOf(state.user)) ELSE @]
    /\ ev' = Event("onAuthStateChanged", s, "ok", Null, 0)
    /\ MountHome(s)
    /\ UNCHANGED <<db, now, calls>>

OnAuthStateChanged(s) ==
    \E state \in AuthStates :
        /\ [user |-> authUser[s], isLoading |-> loading[s]] # state
        /\ OnAuthStateChangedTo(s, state)

\* Header.handleLogout, then signing in as another user: the auth state
\* changes, the router is unmounted and mounted again.
SignIn(s) ==
    \E u \in Users \ {authUser[s]} :
        OnAuthStateChangedTo(s, [user |-> u, isLoading |-> FALSE])

\* The /admin route and the header's dashboard link of a session.
AdminRouteRendered(s) == authUser[s] # Null /\ ~loading[s] /\ isAdmin[s]

\* Following the dashboard link (or opening /admin): AdminDashboard mounts
\* when the route is there.
OpenAdmin(s) ==
    /\ AdminRouteRendered(s)
    /\ route[s] # "admin"
    /\ SetPage(s, "admin", {}, NoProduct, 1, <<>>, NoDiscount, FALSE)
    /\ ev' = Event("openAdmin", s, "ok", Null, 0)
    /\ UNCHANGED <<db, now, authVars, calls>>

(***************************************************************************)
(* The seller's payouts page.                                              *)
(***************************************************************************)
\* An earning as the page keeps it.
MapEarning(e) == [id |-> e.id, netEarnings |-> e.net_earnings, status |-> e.status]

\* A slip in the listing order: oldest first.
LoadedEarningsAscending(d, u) ==
    LET S == {e \in d.sellerEarnings : e.seller_id = u}
        n == Cardinality(S)
    IN [i \in 1..n |-> MapEarning(ByIdDesc(S)[n + 1 - i])]

\* sellerEarnings.list({ where: { sellerId }, orderBy: { createdAt: 'desc' } }):
\* the seller's earnings, newest first (ids grow with the time of creation).
LoadedEarnings(d, u) ==
    LET S == {e \in d.sellerEarnings : e.seller_id = u}
    IN [i \in 1..Cardinality(S) |-> MapEarning(ByIdDesc(S)[i])]

\* earnings.filter(earning => earning.status === 'available')
AvailableEarnings(list) == SelectSeq(list, LAMBDA e : e.status = "available")

\* "Calculate stats"
StatsOf(list) ==
    [totalEarnings |-> SumSeq([i \in 1..Len(list) |-> list[i].netEarnings]),
     availableBalance |->
        SumSeq([i \in 1..Len(AvailableEarnings(list)) |->
                   AvailableEarnings(list)[i].netEarnings])]

\* SellerPayouts mounts and its effect runs loadEarnings, which catches its
\* own errors.
LoadEarnings(s) ==
    /\ \E fail \in BOOLEAN :
        LET list == IF fail THEN <<>> ELSE LoadedEarnings(db, authUser[s]) IN
        /\ earnings' = [earnings EXCEPT ![s] = list]
        /\ stats' = [stats EXCEPT ![s] = IF fail THEN NoStats ELSE StatsOf(list)]
        /\ ev' = Event("loadEarnings", s, IF fail THEN "error" ELSE "ok", Null, 0)
    /\ ShopPage(s, "payouts", {}, NoProduct, 1, <<>>, NoDiscount, FALSE)
    /\ filters' = [filters EXCEPT ![s] = NoFilters]
    /\ flags' = [flags EXCEPT ![s] = Idle]
    /\ UNCHANGED <<db, now, authVars, calls>>

\* What the amount field can hold, and parseFloat of it, in pence.
AmountTexts == {"abc", "0", "-38.00", "19.00", "38.00", "57.00", "500.00"}

NaN == [nan |-> TRUE, value |-> 0]

ParseFloat(text) ==
    CASE text = "0" -> [nan |-> FALSE, value |-> 0]
      [] text = "-38.00" -> [nan |-> FALSE, value |-> -3800]
      [] text = "19.00" -> [nan |-> FALSE, value |-> 1900]
      [] text = "38.00" -> [nan |-> FALSE, value |-> 3800]
      [] text = "57.00" -> [nan |-> FALSE, value |-> 5700]
      [] text = "500.00" -> [nan |-> FALSE, value |-> 50000]
      [] OTHER -> NaN

\* The amount a request may not exceed: stats.availableBalance.
PayoutLimit(st) == st.availableBalance

\* The loop over availableEarnings: a payout item and a status update per
\* earning until nothing remains.
RECURSIVE AllocationWrites(_, _, _)
AllocationWrites(payoutRequestId, availableEarnings, remainingAmount) ==
    IF availableEarnings = <<>> \/ remainingAmount <= 0 THEN <<>>
    ELSE LET earning == Head(availableEarnings)
             allocationAmount == Min(remainingAmount, earning.netEarnings)
         IN <<[op |-> "createPayoutItem",
               row |-> [id |-> 0, payout_request_id |-> payoutRequestId,
                        seller_earning_id |-> earning.id,
                        amount |-> allocationAmount]],
              [op |-> "updateEarning", id |-> earning.id,
               status |-> "pending_payout"]>>
            \o AllocationWrites(payoutRequestId, Tail(availableEarnings),
                                remainingAmount - allocationAmount)

\* Every backend write of a payout request, in program order.
PayoutWrites(d, u, list, requestAmount) ==
    LET payoutRequestId == FreshId(d.payoutRequests) IN
    <<[op |-> "createPayoutRequest",
       row |-> [id |-> payoutRequestId, seller_id |-> u, amount |-> requestAmount,
                status |-> "pending"]]>>
    \o AllocationWrites(payoutRequestId, AvailableEarnings(list), requestAmount)

\* SellerPayouts.handlePayoutRequest.  text: the amount field; k: the number
\* of writes that resolve before a call throws; reloadFail: the reload of the
\* earnings at the end throws (loadEarnings catches it, the page keeps its list).
HandlePayoutRequestWith(s, partial) ==
    /\ route[s] = "payouts"
    /\ Cardinality(db.payoutRequests) < MaxPayouts
    /\ \E text \in AmountTexts, reloadFail \in BOOLEAN :
        LET requestAmount == ParseFloat(text)
            ws == PayoutWrites(db, authUser[s], earnings[s], requestAmount.value)
        IN \E k \in EndPoints(ws, partial) :
            IF requestAmount.nan \/ requestAmount.value <= 0
            THEN /\ k = 0 /\ ~reloadFail
                 /\ ev' = [Event("handlePayoutRequest", s, "invalid_amount", Null,
                                 requestAmount.value) EXCEPT !.code = text]
                 /\ UNCHANGED <<db, earnings, stats>>
            ELSE IF requestAmount.value > PayoutLimit(stats[s])
            THEN /\ k = 0 /\ ~reloadFail
                 /\ ev' = [Event("handlePayoutRequest", s, "insufficient_balance",
                                 Null, requestAmount.value) EXCEPT !.code = text]
                 /\ UNCHANGED <<db, earnings, stats>>
            ELSE IF k < Len(ws)
            THEN /\ ~reloadFail
                 /\ db' = ApplyWrites(db, ws, k)
                 /\ ev' = [Event("handlePayoutRequest", s, "error", Null,
                                 requestAmount.value) EXCEPT !.code = text]
                 /\ UNCHANGED <<earnings, stats>>
            ELSE /\ db' = ApplyWrites(db, ws, k)
                 /\ ev' = [Event("handlePayoutRequest", s, "ok", Null,
                                 requestAmount.value) EXCEPT !.code = text]
                 /\ earnings' = [earnings EXCEPT ![s] =
                       IF reloadFail THEN @ ELSE LoadedEarnings(db', authUser[s])]
                 /\ stats' = [stats EXCEPT ![s] =
                       IF reloadFail THEN @
                       ELSE StatsOf(LoadedEarnings(db', authUser[s]))]
    /\ UNCHANGED <<now, authVars, calls, flags, route, products, product, quantity, cartItems,
                   appliedDiscount, orderComplete, filters>>

HandlePayoutRequest(s) == HandlePayoutRequestWith(s, FALSE)

\* handlePayoutRequest await by await.  The first step checks the amount
\* field against the page's balance and returns on a refusal; otherwise it
\* enters the try block: setProcessingPayout(true).
BeginPayoutRequest(s) ==
    /\ route[s] = "payouts"
    /\ calls[s] = NoCall
    /\ Cardinality(db.payoutRequests) < MaxPayouts
    /\ \E text \in AmountTexts :
        LET requestAmount == ParseFloat(text)
            out == IF requestAmount.nan \/ requestAmount.value <= 0
                   THEN "invalid_amount"
                   ELSE IF requestAmount.value > PayoutLimit(stats[s])
                   THEN "insufficient_balance" ELSE "started"
        IN /\ calls' = [calls EXCEPT ![s] =
                 IF out = "started"
                 THEN [op |-> "handlePayoutRequest", text |-> text] ELSE @]
           /\ flags' = [flags EXCEPT ![s].processingPayout = (out = "started")]
           /\ ev' = [Event("handlePayoutRequest", s, out, Null, requestAmount.value)
                        EXCEPT !.code = text]
    /\ UNCHANGED <<db, now, authVars, pageVars>>

\* The awaited writes and the reload of the request in flight: k writes
\* resolve before a call throws (all: none throws); finally
\* setProcessingPayout(false).
FinishPayoutRequest(s) ==
    /\ calls[s].op = "handlePayoutRequest"
    /\ \E reloadFail \in BOOLEAN :
        LET text == calls[s].text
            requestAmount == ParseFloat(text)
            ws == PayoutWrites(db, authUser[s], earnings[s], requestAmount.value)
        IN \E k \in EndPoints(ws, TRUE) :
            /\ db' = ApplyWrites(db, ws, k)
            /\ IF k < Len(ws)
               THEN /\ ~reloadFail
                    /\ ev' = [Event("handlePayoutRequest", s, "error", Null,
                                    requestAmount.value) EXCEPT !.code = text]
                    /\ UNCHANGED <<earnings, stats>>
               ELSE /\ ev' = [Event("handlePayoutRequest", s, "ok", Null,
                                    requestAmount.value) EXCEPT !.code = text]
                    /\ earnings' = [earnings EXCEPT ![s] =
                          IF reloadFail THEN @ ELSE LoadedEarnings(db', authUser[s])]
                    /\ stats' = [stats EXCEPT ![s] =
                          IF reloadFail THEN @
                          ELSE StatsOf(LoadedEarnings(db', authUser[s]))]
    /\ calls' = [calls EXCEPT ![s] = NoCall]
    /\ flags' = [flags EXCEPT ![s].processingPayout = FALSE]
    /\ UNCHANGED <<now, authVars, route, products, product, quantity, cartItems,
                   appliedDiscount, orderComplete, filters>>

(***************************************************************************)
(* The checkout and the payouts page on Numbers: the same handlers for     *)
(* prices that are not whole pounds, whose arithmetic rounds.  No discount *)
(* is applied; amount fields hold decimals with two places.                *)
(***************************************************************************)
\* cartItems.reduce((total, item) => total + price * quantity, 0), from acc on
RECURSIVE SubtotalFrom(_, _)
SubtotalFrom(acc, items) ==
    IF items = <<>> THEN acc
    ELSE SubtotalFrom(Plus(acc, Times(Head(items).price, FromInt(Head(items).quantity))),
                      Tail(items))

RECURSIVE AllLineWritesNumber(_, _, _)
AllLineWritesNumber(d, orderId, items) ==
    IF items = <<>> THEN <<>>
    ELSE LineWritesWith(d, orderId, Head(items),
                        EarningAmountsNumber(Head(items).price, Head(items).quantity))
         \o AllLineWritesNumber(d, orderId, Tail(items))

\* Every backend write of a submission without a discount, in program order.
SubmitWritesNumber(d, u, items) ==
    LET orderId == FreshId(d.orders)
        subtotal == SubtotalFrom(Zero, items)
    IN <<[op |-> "createOrder",
          row |-> [id |-> orderId, user_id |-> u,
                   total_amount |-> Minus(subtotal, Zero),
                   subtotal_amount |-> subtotal,
                   discount_amount |-> Zero,
                   discount_code |-> NoDiscount.code]]>>
       \o AllLineWritesNumber(d, orderId, items)
       \o ClearWrites(items)

\* Checkout.handleSubmit with no discount applied.
HandleSubmitNumber(s) ==
    /\ route[s] = "checkout"
    /\ ~orderComplete[s]
    /\ appliedDiscount[s] = NoDiscount
    /\ Cardinality(db.orders) < MaxOrders
    /\ \E formOk \in BOOLEAN :
        LET ws == SubmitWritesNumber(db, authUser[s], cartItems[s]) IN
        \E k \in EndPoints(ws, FALSE) :
            IF ~formOk
            THEN /\ k = 0
                 /\ ev' = Event("handleSubmit", s, "invalid_form", Null, 0)
                 /\ UNCHANGED <<db, orderComplete>>
            ELSE IF StockValidationErrors(db, cartItems[s]) # {}
            THEN /\ ev' = Event("handleSubmit", s,
                                IF k = 0 THEN "error" ELSE "stock_failed", Null, 0)
                 /\ UNCHANGED <<db, orderComplete>>
            ELSE /\ db' = ApplyWrites(db, ws, k)
                 /\ orderComplete' = [orderComplete EXCEPT ![s] = (k = Len(ws))]
                 /\ ev' = Event("handleSubmit", s,
                                IF k = Len(ws) THEN "ok" ELSE "error", Null, 0)
    /\ UNCHANGED <<now, authVars, calls, flags, route, products, product, quantity,
                   cartItems, appliedDiscount, filters, earnings, stats>>

\* list.reduce((sum, earning) => sum + earning.netEarnings, 0), from acc on
RECURSIVE NetFrom(_, _)
NetFrom(acc, list) ==
    IF list = <<>> THEN acc ELSE NetFrom(Plus(acc, Head(list).netEarnings), Tail(list))

\* "Calculate stats"
StatsOfNumber(list) ==
    [totalEarnings |-> NetFrom(Zero, list),
     availableBalance |-> NetFrom(Zero, AvailableEarnings(list))]

\* SellerPayouts mounts and its effect runs loadEarnings.
LoadEarningsNumber(s) ==
    /\ \E fail \in BOOLEAN :
        LET list == IF fail THEN <<>> ELSE LoadedEarnings(db, authUser[s]) IN
        /\ earnings' = [earnings EXCEPT ![s] = list]
        /\ stats' = [stats EXCEPT ![s] =
              IF fail THEN [totalEarnings |-> Zero, availableBalance |-> Zero]
              ELSE StatsOfNumber(list)]
        /\ ev' = Event("loadEarnings", s, IF fail THEN "error" ELSE "ok", Null, 0)
    /\ ShopPage(s, "payouts", {}, NoProduct, 1, <<>>, NoDiscount, FALSE)
    /\ filters' = [filters EXCEPT ![s] = NoFilters]
    /\ flags' = [flags EXCEPT ![s] = Idle]
    /\ UNCHANGED <<db, now, authVars, calls>>

\* Math.min(a, b)
MinNumber(a, b) == IF Less(b, a) THEN b ELSE a

\* The loop over availableEarnings: a payout item and a status update per
\* earning until nothing remains.
RECURSIVE AllocationWritesNumber(_, _, _)
AllocationWritesNumber(payoutRequestId, availableEarnings, remainingAmount) ==
    IF availableEarnings = <<>> \/ ~Less(Zero, remainingAmount) THEN <<>>
    ELSE LET earning == Head(availableEarnings)
             allocationAmount == MinNumber(remainingAmount, earning.netEarnings)
         IN <<[op |-> "createPayoutItem",
               row |-> [id |-> 0, payout_request_id |-> payoutRequestId,
                        seller_earning_id |-> earning.id,
                        amount |-> allocationAmount]],
              [op |-> "updateEarning", id |-> earning.id,
               status |-> "pending_payout"]>>
            \o AllocationWritesNumber(payoutRequestId, Tail(availableEarnings),
                                      Minus(remainingAmount, allocationAmount))

\* What the amount field can hold, in hundredths.
AmountCents == {0, 100, 3348, 3800, 50000}

\* SellerPayouts.handlePayoutRequest.  c: the amount field, in hundredths;
\* the calls resolve, the reload of the earnings at the end may throw.
HandlePayoutRequestNumber(s) ==
    /\ route[s] = "payouts"
    /\ Cardinality(db.payoutRequests) < MaxPayouts
    /\ \E c \in AmountCents, reloadFail \in BOOLEAN :
        LET requestAmount == FromCents(c)
            payoutRequestId == FreshId(db.payoutRequests)
            ws == <<[op |-> "createPayoutRequest",
                     row |-> [id |-> payoutRequestId, seller_id |-> authUser[s],
                              amount |-> requestAmount, status |-> "pending"]]>>
                  \o AllocationWritesNumber(payoutRequestId,
                                            AvailableEarnings(earnings[s]),
                                            requestAmount)
        IN IF requestAmount = Zero
           THEN /\ ~reloadFail
                /\ ev' = Event("handlePayoutRequest", s, "invalid_amount", Null, c)
                /\ UNCHANGED <<db, earnings, stats>>
           ELSE IF Less(stats[s].availableBalance, requestAmount)
           THEN /\ ~reloadFail
                /\ ev' = Event("handlePayoutRequest", s, "insufficient_balance",
                               Null, c)
                /\ UNCHANGED <<db, earnings, stats>>
           ELSE /\ db' = ApplyWrites(db, ws, Len(ws))
                /\ ev' = Event("handlePayoutRequest", s, "ok", Null, c)
                /\ earnings' = [earnings EXCEPT ![s] =
                      IF reloadFail THEN @ ELSE LoadedEarnings(db', authUser[s])]
                /\ stats' = [stats EXCEPT ![s] =
                      IF reloadFail THEN @
                      ELSE StatsOfNumber(LoadedEarnings(db', authUser[s]))]
    /\ UNCHANGED <<now, authVars, calls, flags, route, products, product, quantity,
                   cartItems, appliedDiscount, orderComplete, filters>>

(***************************************************************************)
(* Filling the cart: one browser session on the listing, product and book  *)
(* pages, while the seller edits the stock of a product.                   *)
(***************************************************************************)
ShopSessions == {"s1"}

NextCart ==
    \/ \E s \in ShopSessions : LoadProducts(s)
    \/ \E s \in ShopSessions : HomeAddToCart(s)
    \/ \E s \in ShopSessions, p \in ProductIds : LoadProduct(s, p)
    \/ \E s \in ShopSessions : SelectQuantity(s)
    \/ \E s \in ShopSessions : DetailAddToCart(s)
    \/ \E s \in ShopSessions, b \in BookIds : LoadBook(s, b)
    \/ \E s \in ShopSessions : BookAddToCart(s)
    \/ \E s \in ShopSessions : LoadCart(s)
    \/ \E s \in ShopSessions : RemoveItem(s)
    \/ AdminSaveProduct

SpecCart == Init /\ [][NextCart]_vars

(***************************************************************************)
(* Redeeming discount codes: one browser session, in which either user     *)
(* can be signed in, fills the cart, applies codes and checks out, while   *)
(* the admin switches codes on and off and time passes.                    *)
(***************************************************************************)
\* What the backend holds after user u has put one p1 and one p2 into the
\* cart, applied the typed code on the cart page and checked out (nothing, when
\* the code is refused or the stock does not suffice).
AfterCheckout(d, u, typed) ==
    LET filled == [d EXCEPT !.cartItems = @ \cup FilledCart(u, 1, 1)]
        items == ValidItems(filled, u)
        subtotal == CalculateSubtotal(items)
    IN IF /\ CartOf(d, u) = {}
          /\ ValidateOutcome(filled, 0, u, typed, subtotal) = "applied"
          /\ StockValidationErrors(filled, items) = {}
       THEN LET ws == SubmitWrites(filled, u, items, DiscountFor(filled, typed, subtotal))
            IN ApplyWrites(filled, ws, Len(ws))
       ELSE d

\* The backend after a sequence of such checkouts.
RECURSIVE AfterCheckouts(_, _)
AfterCheckouts(d, past) ==
    IF past = <<>> THEN d
    ELSE AfterCheckouts(AfterCheckout(d, Head(past).user, Head(past).typed), Tail(past))

PastCheckouts ==
    UNION {[1..n -> [user : Users, typed : {"save10", "big"}]] : n \in 0..MaxPast}

\* Some discounted checkouts lie in the past; the shopper of s1 has a cart.
InitDiscount ==
    /\ \E past \in PastCheckouts, q1 \in 0..1, q2 \in 0..1 :
         db = [AfterCheckouts([EmptyDb EXCEPT !.products = Catalogue,
                                              !.discountCodes = InitialCodes],
                              past)
                  EXCEPT !.cartItems = FilledCart("u1", q1, q2)]
    /\ now = 0
    /\ SignedIn([s \in Sessions |-> IF s = "s1" THEN "u1" ELSE "u2"])
    /\ InitPages

NextDiscount ==
    \/ \E s \in ShopSessions : LoadCart(s)
    \/ \E s \in ShopSessions : RemoveItem(s)
    \/ \E s \in ShopSessions : ValidateAndApplyDiscount(s)
    \/ \E s \in ShopSessions : RemoveDiscount(s)
    \/ ToggleDiscountStatus
    \/ Tick

SpecDiscount == InitDiscount /\ [][NextDiscount]_vars

(***************************************************************************)
(* Checking out: one browser session with a filled cart edits it, applies  *)
(* codes and submits, while the seller edits and deletes a product.        *)
(***************************************************************************)
Next ==
    \/ \E s \in ShopSessions : LoadCart(s)
    \/ \E s \in ShopSessions : RemoveItem(s)
    \/ \E s \in ShopSessions : ValidateAndApplyDiscount(s)
    \/ \E s \in ShopSessions : RemoveDiscount(s)
    \/ \E s \in ShopSessions : ProceedToCheckout(s)
    \/ \E s \in ShopSessions : HandleSubmit(s)
    \/ AdminSaveProduct
    \/ AdminDeleteProduct

Spec == InitCheckout /\ [][Next]_vars

(***************************************************************************)
(* Browsing: one browser session searches, filters and sorts the listing   *)
(* of a small and of a large catalogue.                                    *)
(***************************************************************************)
\* The k-th product a seller has added through the dashboard's form; names,
\* brands and prices differ from product to product, but for one brand that
\* two products share.
AddedProduct(k) ==
    [id |-> "p" \o ToString(k), price |-> 1000 * k + 500,
     stock_quantity |-> MaxStock, user_id |-> "seller2",
     name |-> <<Alphabet[(k \div 8) + 1], Alphabet[(k % 8) + 1]>>,
     brand |-> IF k = 3 THEN <<"y">>
               ELSE <<Alphabet[(k % 8) + 1], Alphabet[(k \div 8) + 1]>>,
     description |-> IF k % 25 = 0 THEN <<>> ELSE <<"a", "d">>,
     category |-> IF k % 7 = 0 THEN <<"c">> ELSE <<"d">>,
     condition |-> IF k % 6 = 0 THEN <<"u">> ELSE IF k % 9 = 0 THEN <<"r">> ELSE <<"n">>]

\* The backend holds n products.
CatalogueOf(n) == Catalogue \cup {AddedProduct(k) : k \in 3..n}

InitListing ==
    /\ \E n \in {2, MaxProducts} :
         db = [EmptyDb EXCEPT !.products = CatalogueOf(n),
                              !.discountCodes = InitialCodes]
    /\ now = 0
    /\ SignedIn([s \in Sessions |-> IF s = "s1" THEN "u1" ELSE "u2"])
    /\ InitPages

NextListing ==
    \/ \E s \in ShopSessions : LoadProducts(s)
    \/ \E s \in ShopSessions : HandleSearch(s)
    \/ \E s \in ShopSessions : SetFilterCategory(s)
    \/ \E s \in ShopSessions : SetFilterCondition(s)
    \/ \E s \in ShopSessions : SetSortBy(s)
    \/ \E s \in ShopSessions, p \in ProductIds : LoadProduct(s, p)

SpecListing == InitListing /\ [][NextListing]_vars

(***************************************************************************)
(* Payouts: products were sold, and the seller of p1 opens the payouts     *)
(* page and requests payouts.                                              *)
(***************************************************************************)
\* The backend after the seller has restocked a product and buyer u1 has
\* bought sale.q of it.
AfterSale(d, sale) ==
    LET stocked == [d EXCEPT !.products = SetStock(@, sale.p, MaxStock)]
        filled == [stocked EXCEPT !.cartItems =
                      @ \cup {NewCartRow(stocked, "u1", sale.p, Null, sale.q)}]
        items == ValidItems(filled, "u1")
        ws == SubmitWrites(filled, "u1", items, NoDiscount)
    IN ApplyWrites(filled, ws, Len(ws))

RECURSIVE AfterSales(_, _)
AfterSales(d, sales) ==
    IF sales = <<>> THEN d ELSE AfterSales(AfterSale(d, Head(sales)), Tail(sales))

\* The sales of the past: p1 (seller1's) in any quantity, p2 (seller2's) singly.
Sales == [p : {"p1"}, q : 1..MaxStock] \cup {[p |-> "p2", q |-> 1]}

PastSales == UNION {[1..n -> Sales] : n \in 0..MaxSales}

InitPayout ==
    /\ \E sales \in PastSales :
         db = AfterSales([EmptyDb EXCEPT !.products = Catalogue,
                                         !.discountCodes = InitialCodes], sales)
    /\ now = 0
    /\ SignedIn([s \in Sessions |-> IF s = "s1" THEN "seller1" ELSE "seller2"])
    /\ InitPages

NextPayout ==
    \/ \E s \in ShopSessions : LoadEarnings(s)
    \/ \E s \in ShopSessions : HandlePayoutRequest(s)

SpecPayout == InitPayout /\ [][NextPayout]_vars

(***************************************************************************)
(* Shopping from the listing to the order: one browser session adds to the *)
(* cart, edits quantities, applies codes and submits, while the seller     *)
(* edits the stock and time passes.                                        *)
(***************************************************************************)
\* The catalogue holds one product; the clock has passed the expiry date of
\* the code that has one.
InitShop ==
    /\ db = [EmptyDb EXCEPT !.products = {r \in Catalogue : r.id = "p1"},
                            !.discountCodes = InitialCodes]
    /\ now = MaxTime
    /\ SignedIn([s \in Sessions |-> IF s = "s1" THEN "u1" ELSE "u2"])
    /\ InitPages

NextShop ==
    \/ \E s \in ShopSessions : LoadProducts(s)
    \/ \E s \in ShopSessions : HomeAddToCart(s)
    \/ \E s \in ShopSessions, p \in ProductIds : LoadProduct(s, p)
    \/ \E s \in ShopSessions : SelectQuantity(s)
    \/ \E s \in ShopSessions : DetailAddToCart(s)
    \/ \E s \in ShopSessions : LoadCart(s)
    \/ \E s \in ShopSessions : UpdateQuantity(s)
    \/ \E s \in ShopSessions : ValidateAndApplyDiscount(s)
    \/ \E s \in ShopSessions : ProceedToCheckout(s)
    \/ \E s \in ShopSessions :
          Cardinality(db.orders) < MaxShopOrders /\ HandleSubmit(s)
    \/ AdminSaveProduct

SpecShop == InitShop /\ [][NextShop]_vars

(***************************************************************************)
(* Overlapping checkouts: two browser sessions, of two users or of one,     *)
(* have each loaded the checkout page for a cart holding the same product   *)
(* and submit, their awaited backend calls interleaving.                    *)
(***************************************************************************)
\* The discount a session brings to the checkout page after typing a code
\* into the widget of its cart page.
AppliedAt(d, t, u, typed) ==
    LET subtotal == CalculateSubtotal(ValidItems(d, u)) IN
    IF ValidateOutcome(d, t, u, typed, subtotal) = "applied"
    THEN DiscountFor(d, typed, subtotal) ELSE NoDiscount

\* The cart rows of the two sessions' users: one row of p1 per user.
RaceCart(f, q) ==
    {[id |-> IF f[s] = "u1" THEN 1 ELSE 2, user_id |-> f[s], product_id |-> "p1",
      book_id |-> Null, quantity |-> q[f[s]]] : s \in Sessions}

InitRace ==
    \E f \in [Sessions -> Users], q \in [Users -> 1..MaxStock],
       typed \in [Sessions -> {" ", "save10"}] :
        LET d == [EmptyDb EXCEPT !.products = {r \in Catalogue : r.id = "p1"},
                                 !.discountCodes = InitialCodes,
                                 !.cartItems = RaceCart(f, q)]
        IN /\ f["s1"] = "u1"
           /\ \A u \in Users : (\A s \in Sessions : f[s] # u) => q[u] = 1
           /\ db = d
           /\ now = 0
           /\ SignedIn(f)
           /\ route = [s \in Sessions |-> "checkout"]
           /\ products = [s \in Sessions |-> {}]
           /\ product = [s \in Sessions |-> NoProduct]
           /\ quantity = [s \in Sessions |-> 1]
           /\ cartItems = [s \in Sessions |-> ValidItems(d, f[s])]
           /\ appliedDiscount = [s \in Sessions |-> AppliedAt(d, 0, f[s], typed[s])]
           /\ orderComplete = [s \in Sessions |-> FALSE]
           /\ filters = [s \in Sessions |-> NoFilters]
           /\ earnings = [s \in Sessions |-> <<>>]
           /\ stats = [s \in Sessions |-> NoStats]
           /\ calls = [s \in Sessions |-> NoCall]
           /\ flags = [s \in Sessions |-> Idle]
           /\ ev = NoEvent

NextRace ==
    \/ \E s \in Sessions : BeginSubmit(s)
    \/ \E s \in Sessions : SubmitStep(s)

SpecRace == InitRace /\ [][NextRace]_vars

(***************************************************************************)
(* Stale pages: the two submissions again, from checkout pages that loaded *)
(* their lines when the product had another stock than it has now (the     *)
(* seller has edited the stock since).                                     *)
(***************************************************************************)
InitStale ==
    \E f \in [Sessions -> Users], q \in [Users -> 1..MaxStock], n \in 0..MaxStock :
        LET d == [EmptyDb EXCEPT !.products = {r \in Catalogue : r.id = "p1"},
                                 !.discountCodes = InitialCodes,
                                 !.cartItems = RaceCart(f, q)]
            loaded == [d EXCEPT !.products = SetStock(@, "p1", n)]
        IN /\ f["s1"] = "u1"
           /\ \A u \in Users : (\A s \in Sessions : f[s] # u) => q[u] = 1
           /\ db = d
           /\ now = 0
           /\ SignedIn(f)
           /\ route = [s \in Sessions |-> "checkout"]
           /\ products = [s \in Sessions |-> {}]
           /\ product = [s \in Sessions |-> NoProduct]
           /\ quantity = [s \in Sessions |-> 1]
           /\ cartItems = [s \in Sessions |-> ValidItems(loaded, f[s])]
           /\ appliedDiscount = [s \in Sessions |-> NoDiscount]
           /\ orderComplete = [s \in Sessions |-> FALSE]
           /\ filters = [s \in Sessions |-> NoFilters]
           /\ earnings = [s \in Sessions |-> <<>>]
           /\ stats = [s \in Sessions |-> NoStats]
           /\ calls = [s \in Sessions |-> NoCall]
           /\ flags = [s \in Sessions |-> Idle]
           /\ ev = NoEvent

SpecStale == InitStale /\ [][NextRace]_vars

(***************************************************************************)
(* Filling and editing the cart: one shopper adds from the listing and the *)
(* product page and edits the cart page; in the second specification the   *)
(* seller edits the stock meanwhile.                                       *)
(***************************************************************************)
NextBasket ==
    \/ \E s \in ShopSessions : LoadProducts(s)
    \/ \E s \in ShopSessions : HomeAddToCart(s)
    \/ \E s \in ShopSessions, p \in ProductIds : LoadProduct(s, p)
    \/ \E s \in ShopSessions : SelectQuantity(s)
    \/ \E s \in ShopSessions : DetailAddToCart(s)
    \/ \E s \in ShopSessions : LoadCart(s)
    \/ \E s \in ShopSessions : UpdateQuantity(s)
    \/ \E s \in ShopSessions : RemoveItem(s)

SpecBasket == Init /\ [][NextBasket]_vars

NextEdit ==
    \/ NextBasket
    \/ AdminSaveProduct

SpecEdit == InitShop /\ [][NextEdit]_vars

(***************************************************************************)
(* Loading the cart: the shopper of s1 opens the filled cart, removes      *)
(* lines and proceeds to the checkout page, while the seller deletes       *)
(* products; single product lookups of the cart page may throw.            *)
(***************************************************************************)
NextCartLoad ==
    \/ \E s \in ShopSessions : LoadCart(s)
    \/ \E s \in ShopSessions : LoadCartLookupThrows(s)
    \/ \E s \in ShopSessions : RemoveItem(s)
    \/ \E s \in ShopSessions : ProceedToCheckout(s)
    \/ AdminDeleteProduct

SpecCartLoad == InitCheckout /\ [][NextCartLoad]_vars

(***************************************************************************)
(* In-flight flags: seller1, with one sale of p1 earned and one p2 in the  *)
(* cart, of which the stock may have run out, searches the listing, checks *)
(* out and requests payouts; every handler runs await by await, its calls  *)
(* may throw, and the listing's loads may overlap.                         *)
(***************************************************************************)
InitFlags ==
    /\ \E n \in {0, MaxStock} :
         db = [AfterSale([EmptyDb EXCEPT !.products = Catalogue,
                                        !.discountCodes = InitialCodes],
                        [p |-> "p1", q |-> 1])
                 EXCEPT !.cartItems = FilledCart("seller1", 0, 1),
                        !.products = SetStock(@, "p2", n)]
    /\ now = 0
    /\ SignedIn([s \in Sessions |-> "seller1"])
    /\ InitPages

NextFlags ==
    \/ \E s \in ShopSessions : BeginLoadProducts(s)
    \/ \E s \in ShopSessions : BeginHandleSearch(s)
    \/ \E s \in ShopSessions : FinishLoadProducts(s)
    \/ \E s \in ShopSessions : calls[s] = NoCall /\ LoadCart(s)
    \/ \E s \in ShopSessions : calls[s] = NoCall /\ ProceedToCheckout(s)
    \/ \E s \in ShopSessions : BeginSubmit(s)
    \/ \E s \in ShopSessions : SubmitStepWith(s, TRUE)
    \/ \E s \in ShopSessions : calls[s] = NoCall /\ LoadEarnings(s)
    \/ \E s \in ShopSessions : BeginPayoutRequest(s)
    \/ \E s \in ShopSessions : FinishPayoutRequest(s)

SpecFlags == InitFlags /\ [][NextFlags]_vars

(***************************************************************************)
(* Amounts: seller1 has priced p1 in the admin form and owns both          *)
(* products; the shopper of s1 opens the filled cart and checks out; the   *)
(* seller, in s2, opens the payouts page and requests payouts.  Prices and *)
(* amounts are Numbers.                                                    *)
(***************************************************************************)
\* What the price field of the admin form can hold, in hundredths.
PriceCents == {0, 155, 4000}

\* products.update(id, {price: parseFloat(formData.price)}) and the price
\* column of the other rows, as Numbers.
Priced(rows, c) ==
    {[r EXCEPT !.price = FromCents(IF r.id = "p1" THEN c ELSE r.price),
               !.user_id = "seller1"] : r \in rows}

InitMoney ==
    /\ \E c \in PriceCents, q1 \in 0..MaxStock, q2 \in 0..MaxStock :
         db = [EmptyDb EXCEPT !.products = Priced(Catalogue, c),
                              !.cartItems = FilledCart("u1", q1, q2)]
    /\ now = 0
    /\ SignedIn([s \in Sessions |-> IF s = "s1" THEN "u1" ELSE "seller1"])
    /\ InitPages

NextMoney ==
    \/ LoadCart("s1")
    \/ ProceedToCheckout("s1")
    \/ HandleSubmitNumber("s1")
    \/ LoadEarningsNumber("s2")
    \/ HandlePayoutRequestNumber("s2")

SpecMoney == InitMoney /\ [][NextMoney]_vars

(***************************************************************************)
(* Failing calls: the shopper of s1 opens the filled cart, applies a code   *)
(* and submits; the submission runs await by await and any awaited write   *)
(* may throw instead of resolving.  The shopper stays on the checkout page *)
(* while a submission is in flight.                                        *)
(***************************************************************************)
NextPartial ==
    \/ \E s \in ShopSessions : calls[s] = NoCall /\ LoadCart(s)
    \/ \E s \in ShopSessions : calls[s] = NoCall /\ ValidateAndApplyDiscount(s)
    \/ \E s \in ShopSessions : calls[s] = NoCall /\ ProceedToCheckout(s)
    \/ \E s \in ShopSessions : Cardinality(db.orders) < MaxShopOrders /\ BeginSubmit(s)
    \/ \E s \in ShopSessions : SubmitStepWith(s, TRUE)

SpecPartial == InitCheckout /\ [][NextPartial]_vars

(***************************************************************************)
(* Two tabs: one user has the listing open in two tabs and adds to the     *)
(* cart in both; the calls of the two handlers interleave.                 *)
(***************************************************************************)
InitTabs ==
    /\ db = [EmptyDb EXCEPT !.products = Catalogue, !.discountCodes = InitialCodes]
    /\ now = 0
    /\ SignedIn([s \in Sessions |-> "u1"])
    /\ InitPages

NextTabs ==
    \/ \E s \in Sessions : LoadProducts(s)
    \/ \E s \in Sessions : BeginAddToCart(s)
    \/ \E s \in Sessions : FinishAddToCart(s)

SpecTabs == InitTabs /\ [][NextTabs]_vars

(***************************************************************************)
(* Signing in and out: in each browser session the auth client reports     *)
(* loading, no user, or one of the accounts, in any order.                 *)
(***************************************************************************)
\* App at mount: user null, loading true, isAdmin false.
InitAuth ==
    /\ db = [EmptyDb EXCEPT !.products = Catalogue, !.discountCodes = InitialCodes]
    /\ now = 0
    /\ authUser = [s \in Sessions |-> Null]
    /\ isAdmin = [s \in Sessions |-> FALSE]
    /\ loading = [s \in Sessions |-> TRUE]
    /\ InitPages

NextAuth ==
    \/ \E s \in Sessions : OnAuthStateChanged(s)
    \/ \E s \in Sessions : SignIn(s)
    \/ \E s \in Sessions : OpenAdmin(s)

SpecAuth == InitAuth /\ [][NextAuth]_vars

(***************************************************************************)
(* The claims.                                                             *)
(***************************************************************************)
\* The last handler was the discount widget's validateAndApplyDiscount.
Validated == ev.op = "validateAndApplyDiscount"

\* The subtotal the widget of the last event's session was given.
WidgetSubtotal == CalculateSubtotal(cartItems[ev.s])

\* A row of the entered code that is active, not expired, under its limit,
\* whose minimum the subtotal meets and which the user has not used.
EligibleRows(code, u, subtotal) ==
    {c \in db.discountCodes :
        /\ c.code = code
        /\ c.is_active
        /\ (c.expires_at = <<>> \/ c.expires_at[1] >= now)
        /\ (c.max_uses = 0 \/ c.current_uses < c.max_uses)
        /\ subtotal >= c.minimum_order_amount
        /\ ~\E x \in db.discountCodeUses :
              x.discount_code_id = c.id /\ x.user_id = u}

\* C1: validateAndApplyDiscount, when no backend call throws, hands a discount
\* to onDiscountApplied if and only if a row with the entered code exists that
\* is active, is not expired, has currentUses below maxUses (when set), has a
\* minimum order amount the subtotal meets, and has no usage record of the
\* requesting user; in every other case, a thrown call included, none is applied.
C1_AppliedIffEligible ==
    Validated =>
        /\ ev.out = "error" => appliedDiscount[ev.s] = NoDiscount
        /\ ev.out # "error" =>
              ((appliedDiscount[ev.s] # NoDiscount)
                  <=> (EligibleRows(ev.code, authUser[ev.s], WidgetSubtotal) # {}))

\* C1 witnesses: a code accepted, and a code refused for a limit reached.
C1_Witness ==
    /\ Validated
    /\ ev.out = "applied"
    /\ appliedDiscount[ev.s].code = "SAVE10"

\* C2: the amount handed to onDiscountApplied is min(subtotal, subtotal *
\* discountValue / 100) for a percentage code and min(subtotal, discountValue)
\* for a fixed code, hence never above the subtotal it was computed for.
C2_AmountCapped ==
    (Validated /\ ev.out = "applied") =>
        \E c \in db.discountCodes :
            /\ c.code = ev.code
            /\ appliedDiscount[ev.s].code = c.code
            /\ appliedDiscount[ev.s].amount =
                  (IF c.discount_type = "percentage"
                   THEN Min(WidgetSubtotal, (WidgetSubtotal * c.discount_value) \div 100)
                   ELSE Min(WidgetSubtotal, c.discount_value))
            /\ appliedDiscount[ev.s].amount <= WidgetSubtotal

\* C2 witness: a fixed code worth more than the subtotal was accepted, and
\* the amount is the subtotal.
C2_Witness ==
    /\ Validated
    /\ ev.out = "applied"
    /\ ev.code = "BIG"
    /\ WidgetSubtotal > 0
    /\ appliedDiscount[ev.s].amount = WidgetSubtotal

\* This step is a Checkout.handleSubmit that ran to its end (order placed).
SubmittedOk == ev'.op = "handleSubmit" /\ ev'.out = "ok"

\* The session and the user of the handler this step runs.
Submitter == authUser[ev'.s]

\* The products of the cart rows the backend holds for a user.
CartProducts(d, u) == {r.product_id : r \in CartOf(d, u)}

\* C3: after Checkout.handleSubmit completes successfully the backend holds
\* exactly one new order for the submission, exactly one order item per
\* distinct product of the user's cart, carrying that row's quantity and the
\* product's price, and no cart row of the user remains.
C3_OrderItemsAndEmptyCart ==
    [][SubmittedOk =>
          \E o \in db'.orders \ db.orders :
             /\ db'.orders \ db.orders = {o}
             /\ o.user_id = Submitter
             /\ \A r \in CartOf(db, Submitter) :
                   Cardinality({i \in db'.orderItems \ db.orderItems :
                                   /\ i.order_id = o.id
                                   /\ i.product_id = r.product_id
                                   /\ i.quantity = r.quantity}) = 1
             /\ Cardinality(db'.orderItems \ db.orderItems)
                   = Cardinality(CartProducts(db, Submitter))
             /\ CartOf(db', Submitter) = {}]_vars

\* The part of C3 the code keeps: one new order, one order item per line the
\* checkout page loaded, and none of the loaded lines' rows left.
C3_LoadedLinesOrdered ==
    [][SubmittedOk =>
          \E o \in db'.orders \ db.orders :
             /\ db'.orders \ db.orders = {o}
             /\ \A k \in 1..Len(cartItems[ev'.s]) :
                   Cardinality({i \in db'.orderItems \ db.orderItems :
                                   /\ i.order_id = o.id
                                   /\ i.product_id = cartItems[ev'.s][k].productId
                                   /\ i.quantity = cartItems[ev'.s][k].quantity
                                   /\ i.price = cartItems[ev'.s][k].price}) = 1
             /\ Cardinality(db'.orderItems \ db.orderItems) = Len(cartItems[ev'.s])
             /\ \A k \in 1..Len(cartItems[ev'.s]) :
                   \A r \in db'.cartItems : r.id # cartItems[ev'.s][k].id]_vars

\* C3 failure state: an order was placed and a cart row of the buyer is left.
C3_LeftoverRow ==
    /\ ev.op = "handleSubmit"
    /\ ev.out = "ok"
    /\ CartOf(db, authUser[ev.s]) # {}

\* The stock the backend holds for a product (0 when the row is gone).
StockOf(d, p) ==
    IF ProductRows(d, p) = {} THEN 0 ELSE OnlyRow(ProductRows(d, p)).stock_quantity

\* C4: after Checkout.handleSubmit completes successfully each purchased
\* product's stored stock is the stock it had when the submission re-validated
\* it minus the purchased quantity, also when the stock changed between the
\* page's cart load and the submission.
C4_StockFromRevalidation ==
    [][SubmittedOk =>
          \A k \in 1..Len(cartItems[ev'.s]) :
             StockOf(db', cartItems[ev'.s][k].productId)
                = StockOf(db, cartItems[ev'.s][k].productId)
                     - cartItems[ev'.s][k].quantity]_vars

\* What the code does instead: the stock written is the stock the page loaded
\* minus the quantity, floored at zero.
C4_StockFromPageLoad ==
    [][SubmittedOk =>
          \A k \in 1..Len(cartItems[ev'.s]) :
             StockOf(db', cartItems[ev'.s][k].productId)
                = Max(0, cartItems[ev'.s][k].stockQuantity
                            - cartItems[ev'.s][k].quantity)]_vars

\* The subtotal of the claim: the sum of price * quantity over the lines.
LineSum(items) == SumSeq([i \in 1..Len(items) |-> items[i].price * items[i].quantity])

\* The order items stored for an order, as a list by id.
ItemsOfOrder(o) ==
    LET S == {i \in db.orderItems : i.order_id = o.id} IN
    [k \in 1..Cardinality(S) |-> ByIdDesc(S)[k]]

\* C5: the total shown in Cart and Checkout and the total_amount stored with
\* an order are max(0, subtotal - applied discount amount), the subtotal being
\* the sum of price * quantity over the lines; a subtotal of 100.00 with the
\* 10% code just accepted gives 90.00; the total is never negative.
C5_TotalIsClampedDifference ==
    /\ \A s \in Sessions :
          route[s] \in {"cart", "checkout"} =>
             /\ CalculateTotal(cartItems[s], appliedDiscount[s])
                   = Max(0, LineSum(cartItems[s]) - appliedDiscount[s].amount)
             /\ CalculateTotal(cartItems[s], appliedDiscount[s]) >= 0
    /\ \A o \in db.orders :
          /\ o.total_amount = Max(0, o.subtotal_amount - o.discount_amount)
          /\ o.total_amount >= 0
          /\ o.subtotal_amount = LineSum(ItemsOfOrder(o))
    /\ (Validated /\ ev.out = "applied" /\ ev.code = "SAVE10"
            /\ LineSum(cartItems[ev.s]) = 10000)
          => CalculateTotal(cartItems[ev.s], appliedDiscount[ev.s]) = 9000

\* C5 witness: an order stored with a discount larger than its subtotal (the
\* code was accepted before a line was removed), total 0.
C5_Witness ==
    \E o \in db.orders :
        /\ o.discount_amount > o.subtotal_amount
        /\ o.subtotal_amount > 0
        /\ o.total_amount = 0

\* The three addToCart handlers, and the two that check stock.
AddOps == {"HomePage.addToCart", "ProductDetails.addToCart", "BookDetails.addToCart"}
StockCheckedAddOps == {"HomePage.addToCart", "ProductDetails.addToCart"}

\* The quantity the handler of this step adds: the selected quantity on the
\* product page, 1 on the listing and book pages.
Added == IF ev'.op = "ProductDetails.addToCart" THEN quantity[ev'.s] ELSE 1

\* The cart rows the backend holds, before this step, for the user and the
\* product (or book) the handler of this step is about.
ExistingRows ==
    IF ev'.op = "BookDetails.addToCart"
    THEN BookRowsOf(db, authUser[ev'.s], ev'.p)
    ELSE CartRowsOf(db, authUser[ev'.s], ev'.p)

\* The stock the page of this step's handler holds for the product.
PageStock ==
    IF ev'.op = "HomePage.addToCart"
    THEN (CHOOSE i \in products[ev'.s] : i.id = ev'.p).stockQuantity
    ELSE product[ev'.s].stockQuantity

\* The quantity of the existing row (0 when there is none).
ExistingQuantity ==
    IF ExistingRows = {} THEN 0 ELSE (CHOOSE r \in ExistingRows : TRUE).quantity

\* The handler of this step refuses the addition: the page's stock is used up.
Refused == PageStock <= 0 \/ ExistingQuantity + Added > PageStock

\* C6: addToCart (listing, product page, book page) for a product that has a
\* cart row of the user creates no new row and, when the addition goes through
\* (not refused for stock, no call thrown), raises that row's quantity by 1
\* (listing, book page) or by the selected quantity (product page), leaving
\* every other row alone; a row is created only when none exists for (user,
\* product), and then with the added quantity.
C6_IncrementNotDuplicate ==
    [][ev'.op \in AddOps =>
          /\ ExistingRows # {} =>
                /\ {r.id : r \in db'.cartItems} = {r.id : r \in db.cartItems}
                /\ ev'.out # "created"
                /\ (ev'.out # "error"
                       /\ (ev'.op \in StockCheckedAddOps => ~Refused))
                      => /\ ev'.out = "updated"
                         /\ \A r \in db.cartItems :
                               IF r \in ExistingRows
                               THEN [r EXCEPT !.quantity = r.quantity + Added]
                                       \in db'.cartItems
                               ELSE r \in db'.cartItems
          /\ db'.cartItems \ db.cartItems # {} /\ ev'.out = "created" =>
                /\ ExistingRows = {}
                /\ db.cartItems \subseteq db'.cartItems
                /\ \E r \in db'.cartItems \ db.cartItems :
                      /\ db'.cartItems \ db.cartItems = {r}
                      /\ r.user_id = authUser[ev'.s]
                      /\ r.quantity = Added
                      /\ ev'.p \in {r.product_id, r.book_id}
          /\ Cardinality(db'.cartItems) > Cardinality(db.cartItems)
                => ExistingRows = {} /\ ev'.out = "created"]_vars

\* C6 witness: the listing's addToCart raised an existing row to quantity 2,
\* and the user still has one row for the product.
C6_Witness ==
    /\ ev.op = "HomePage.addToCart"
    /\ ev.out = "updated"
    /\ \E r \in CartRowsOf(db, authUser[ev.s], ev.p) :
          /\ r.quantity = 2
          /\ CartRowsOf(db, authUser[ev.s], ev.p) = {r}

\* C7 as stated: the stock is the product's current stock, the one the
\* backend holds when addToCart runs.  When the existing quantity plus the
\* added quantity exceeds it, or it is zero, the cart rows are unchanged and
\* the handler ends in a refusal.
C7_RejectedOnCurrentStock ==
    [][(/\ ev'.op \in StockCheckedAddOps
        /\ \/ StockOf(db, ev'.p) <= 0
           \/ ExistingQuantity + Added > StockOf(db, ev'.p))
          => /\ db'.cartItems = db.cartItems
             /\ ev'.out \notin {"updated", "created"}]_vars

\* C7 amended: the stock is the one the page holds for the product, as
\* loadProducts or loadProduct fetched it.  When the existing quantity plus
\* the added quantity exceeds it, or it is zero, the handler ends in a refusal
\* (or in the error notification when a call throws) and no cart row is
\* created or updated.
C7_RejectedOnPageStock ==
    [][(ev'.op \in StockCheckedAddOps /\ Refused)
          => /\ db' = db
             /\ ev'.out \in {"out_of_stock", "insufficient", "insufficient_local",
                             "error"}]_vars

\* C7 witness: the product page refused to add 2 to a row because of stock.
C7_Witness ==
    /\ ev.op = "ProductDetails.addToCart"
    /\ ev.out = "insufficient"
    /\ quantity[ev.s] = 2
    /\ CartRowsOf(db, authUser[ev.s], ev.p) # {}

\* The handlers that end by running loadProducts.
LoadOps == {"loadProducts"}

\* The predicates of the claim: the search text occurs in name, brand,
\* description or category; the category and the condition are the chosen ones.
Satisfies(r, f) ==
    /\ f.searchQuery # <<>> =>
          \/ Contains(r.name, f.searchQuery)
          \/ Contains(r.brand, f.searchQuery)
          \/ Contains(r.description, f.searchQuery)
          \/ Contains(r.category, f.searchQuery)
    /\ f.filterCategory # All => r.category = f.filterCategory
    /\ f.filterCondition # All => r.condition = f.filterCondition

\* The backend products that satisfy the filters of the last load's session.
Satisfying == {r \in db.products : Satisfies(r, filters[ev.s])}

\* The ids of the products the listing renders.
Rendered == {i.id : i \in products[ev.s]}

C10_Truncated ==
    /\ ev.op \in LoadOps
    /\ ev.out = "ok"
    /\ filters[ev.s].searchQuery # <<>>
    /\ Cardinality(Satisfying) > 50
    /\ Cardinality(Rendered) = 50

\* This step is a handlePayoutRequest, and one that ran to its end.
PayoutStep == ev'.op = "handlePayoutRequest"
PayoutCompleted == PayoutStep /\ ev'.out = "ok"

\* The amount this step's handler was asked for, and whether it is a number.
Requested == ParseFloat(ev'.code)

\* The earnings the page of this step's session lists as available, in the
\* order it lists them, and the same oldest first.
ListedAvailable == SelectSeq(earnings[ev'.s], LAMBDA e : e.status = "available")

OldestFirst ==
    [i \in 1..Len(ListedAvailable) |->
        ListedAvailable[Len(ListedAvailable) + 1 - i]]

\* The net earnings of the first i earnings of a list.
NetOfFirst(order, i) == SumSeq([j \in 1..i |-> order[j].netEarnings])

\* The status the backend holds for an earning.
StatusOf(d, id) == (CHOOSE e \in d.sellerEarnings : e.id = id).status

\* This step creates exactly one payout request, for the requested amount,
\* and walks the earnings of order from its first: an earning is touched
\* exactly when the earnings before it do not cover the amount; a touched
\* earning gets exactly one payout item, of min(remaining, netEarnings), and
\* becomes pending_payout; the others get no item and keep their status.
WalksInOrder(order) ==
    \E r \in db'.payoutRequests \ db.payoutRequests :
        /\ db'.payoutRequests \ db.payoutRequests = {r}
        /\ r.seller_id = authUser[ev'.s]
        /\ r.amount = Requested.value
        /\ db.payoutItems \subseteq db'.payoutItems
        /\ \A it \in db'.payoutItems \ db.payoutItems :
              /\ it.payout_request_id = r.id
              /\ \E i \in 1..Len(order) : order[i].id = it.seller_earning_id
        /\ \A i \in 1..Len(order) :
              LET before == NetOfFirst(order, i - 1)
                  items == {it \in db'.payoutItems \ db.payoutItems :
                               it.seller_earning_id = order[i].id}
              IN IF before < Requested.value
                 THEN /\ Cardinality(items) = 1
                      /\ \A it \in items :
                            it.amount = Min(Requested.value - before,
                                            order[i].netEarnings)
                      /\ StatusOf(db', order[i].id) = "pending_payout"
                 ELSE /\ items = {}
                      /\ StatusOf(db', order[i].id) = StatusOf(db, order[i].id)
        /\ \A e \in db.sellerEarnings :
              (\A i \in 1..Len(order) : order[i].id # e.id) => e \in db'.sellerEarnings

BackendBalance(d, u) ==
    StatsOf(LoadedEarnings(d, u)).availableBalance

\* The amount is no number or not positive.
NoAmount == Requested.nan \/ Requested.value <= 0

\* This step leaves payout requests, payout items and earnings as they were
\* and ends in a refusal.
PayoutRefused ==
    /\ db'.payoutRequests = db.payoutRequests
    /\ db'.payoutItems = db.payoutItems
    /\ db'.sellerEarnings = db.sellerEarnings
    /\ ev'.out \in {"invalid_amount", "insufficient_balance"}

\* C9 as stated: a handlePayoutRequest with an amount above the available
\* balance (the sum of netEarnings of the seller's earnings with status
\* available), or with a non-positive or non-numeric amount, is rejected and
\* creates no payout request, no payout item and changes no earning's status.
C9_RejectedAboveBalance ==
    [][(PayoutStep
          /\ (NoAmount \/ Requested.value > BackendBalance(db, authUser[ev'.s])))
          => PayoutRefused]_vars

\* What the code does instead: the balance it compares with is the one the
\* page computed when it last loaded the earnings (stats.availableBalance).
C9_RejectedAboveLoadedBalance ==
    [][(PayoutStep
          /\ (NoAmount \/ Requested.value > stats[ev'.s].availableBalance))
          => PayoutRefused]_vars

\* A line of the session's checkout page whose product, fetched now, is gone
\* or has less stock than the line's quantity.
FreshlyShort(s) ==
    \E k \in 1..Len(cartItems[s]) :
        \/ ProductRows(db, cartItems[s][k].productId) = {}
        \/ StockOf(db, cartItems[s][k].productId) < cartItems[s][k].quantity

\* C11: when, during Checkout.handleSubmit, the freshly fetched stock of a
\* cart line is below the line's quantity or its product no longer exists, the
\* submission is rejected and nothing is written: the backend (orders, order
\* items, stock, earnings, discount usage, cart rows) is left as it was and the
\* order-complete state is not reached.
C11_RejectedNothingWritten ==
    [][(ev'.op = "handleSubmit" /\ FreshlyShort(ev'.s)) =>
          /\ db' = db
          /\ ~orderComplete'[ev'.s]
          /\ ev'.out \in {"invalid_form", "stock_failed", "error"}]_vars

\* C11 case: a submission was rejected by the stock validation although every
\* line was in stock when the page loaded; the cart rows are still there.
C11_Witness ==
    /\ ev.op = "handleSubmit"
    /\ ev.out = "stock_failed"
    /\ FreshlyShort(ev.s)
    /\ \A k \in 1..Len(cartItems[ev.s]) :
          cartItems[ev.s][k].stockQuantity >= cartItems[ev.s][k].quantity
    /\ \A k \in 1..Len(cartItems[ev.s]) :
          \E r \in db.cartItems : r.id = cartItems[ev.s][k].id
    /\ db.orders = {}

\* A user is signed in in session s: App renders the header and the routes.
UserSignedIn(s) == authUser[s] # Null /\ ~loading[s]

\* C12: after any sequence of authentication state changes, whenever a user
\* is signed in, the /admin route and the header's dashboard link are there if
\* and only if that user's email, lowercased, is in the admin allow-list.
C12_AdminIffAllowListed ==
    \A s \in Sessions :
        /\ UserSignedIn(s) =>
              (AdminRouteRendered(s)
                  <=> ToLowerCase(EmailOf(authUser[s])) \in adminEmails)
        /\ (UserSignedIn(s) /\ route[s] = "admin") =>
              ToLowerCase(EmailOf(authUser[s])) \in adminEmails

\* C12 case: an admin whose email is spelled with capitals has opened the
\* dashboard in one session, while another session, signed in as a user who
\* is not on the list, has no admin route.
C12_Witness ==
    \E s, t \in Sessions :
        /\ authUser[s] = "seller2" /\ route[s] = "admin"
        /\ authUser[t] = "u2" /\ UserSignedIn(t) /\ ~AdminRouteRendered(t)

\* This step ends a handler by a check on the page's own state: empty
\* required fields, an empty code, no stock or less stock on the page than the
\* quantity asked for.
RefusedLocally ==
    \/ ev'.out \in {"invalid_form", "out_of_stock", "insufficient_local", "empty"}
    \/ ev'.op = "Cart.updateQuantity" /\ ev'.out = "insufficient"

\* This step ends a handler by a check on rows it has fetched: the combined
\* quantity of addToCart, the checkout's stock validation, a discount code
\* that is invalid, expired, exhausted or below its minimum.
RefusedOnFetchedRows ==
    \/ /\ ev'.op \in {"HomePage.addToCart", "ProductDetails.addToCart"}
       /\ ev'.out = "insufficient"
    \/ ev'.op = "handleSubmit" /\ ev'.out = "stock_failed"
    \/ /\ ev'.op = "validateAndApplyDiscount"
       /\ ev'.out \in {"invalid", "expired", "limit_reached", "minimum_not_met"}

OrderedQuantity(d, p) ==
    LET sold == ByIdDesc({i \in d.orderItems : i.product_id = p})
    IN SumSeq([k \in 1..Len(sold) |-> sold[k].quantity])

\* This step is the stock validation of an overlapping submission.
ValidationStep ==
    ev'.op = "Checkout.handleSubmit" /\ ev'.out \in {"validated", "stock_failed"}

\* C14: two checkouts running concurrently for the same product can both pass
\* the stock re-validation and both complete, even when their quantities sum
\* to more than the stock.  Nothing but the stored stock decides a validation:
\* it passes exactly when every line's product row exists and holds at least
\* the line's quantity, whatever other submission is in flight, and a
\* submission in flight is never refused afterwards.
C14_OnlyStoredStockDecides ==
    [][/\ ValidationStep =>
            (ev'.out = "validated" <=> ~FreshlyShort(ev'.s))
       /\ (ev'.op = "Checkout.handleSubmit" /\ calls[ev'.s] # NoCall) =>
            ev'.out \in {"written", "ok"}]_vars

\* C14 case: the checkouts of two users have both completed, each has its
\* order, and together they ordered more of p1 than was in stock.
C14_Witness ==
    /\ authUser["s1"] # authUser["s2"]
    /\ \A s \in Sessions : orderComplete[s]
    /\ \A s \in Sessions : \E o \in db.orders : o.user_id = authUser[s]
    /\ OrderedQuantity(db, "p1") > MaxStock
    /\ \A r \in Catalogue : r.stock_quantity = MaxStock

\* The usage rows the backend holds for a code.
UsesOf(d, codeId) == {x \in d.discountCodeUses : x.discount_code_id = codeId}

\* The row of a code (by its code string).
CodeRow(d, code) == OnlyRow({c \in d.discountCodes : c.code = code})

\* C15: for a code with maxUses set, overlapping redemptions by different
\* users are unguarded: each user passes the max-uses check against the same
\* currentUses and each completes a checkout with the code, so the recorded
\* redemptions can exceed maxUses.  The submission does not look at the limit:
\* its usage step records a redemption and its counter step raises the counter
\* whatever the counter and the limit are.
C15_RedemptionUnguarded ==
    [][(ev'.op = "Checkout.handleSubmit" /\ ev'.out \in {"written", "ok"}) =>
          /\ ev'.code = "createUse" =>
                \E x \in db'.discountCodeUses \ db.discountCodeUses :
                    /\ db'.discountCodeUses = db.discountCodeUses \cup {x}
                    /\ x.user_id = authUser[ev'.s]
                    /\ x.discount_code_id
                          = CodeRow(db, appliedDiscount[ev'.s].code).id
          /\ ev'.code = "updateUses" =>
                \E c \in db.discountCodes :
                    /\ c.code = appliedDiscount[ev'.s].code
                    /\ CodeRow(db', c.code).current_uses >= 1]_vars

\* C15 case: SAVE10 allows one use; two users applied it while its counter
\* was 0, both checkouts completed, and two redemptions are recorded.
C15_Witness ==
    /\ authUser["s1"] # authUser["s2"]
    /\ \A s \in Sessions : orderComplete[s] /\ appliedDiscount[s].code = "SAVE10"
    /\ CodeRow(db, "SAVE10").max_uses = 1
    /\ Cardinality(UsesOf(db, CodeRow(db, "SAVE10").id)) = 2
    /\ Cardinality({o \in db.orders : o.discount_code = "SAVE10"}) = 2

\* The steps of the submission a session had in flight before the step.
StepsOf(s) == SubmitSteps(cartItems[s], appliedDiscount[s])

\* C16: a backend call of handleSubmit that fails after the order record was
\* created leaves every earlier write in place, runs no later step (the cart
\* rows stay), does not reach the order-complete state and shows an error
\* notification; a session whose handler has ended writes nothing.
C16_FailureKeepsWritesAndStops ==
    [][/\ (ev'.op = "Checkout.handleSubmit" /\ ev'.out = "error" /\ ev'.q >= 1) =>
            /\ db' = db
            /\ \E o \in db'.orders :
                   o.id = calls[ev'.s].orderId /\ o.user_id = calls[ev'.s].user
            /\ calls[ev'.s].pc = ev'.q /\ calls'[ev'.s] = NoCall
            /\ ~orderComplete'[ev'.s]
            /\ \A r \in db.cartItems : r \in db'.cartItems
       /\ \A s \in Sessions : (calls[s] = NoCall /\ ev'.s = s) => db' = db]_vars

\* C16 case: the earnings call of a submission failed; the order, its item
\* and the stock write are in the backend, no earning is, the cart row of the
\* user is still there and the page is not in its order-complete state.
C16_Witness ==
    /\ ev.op = "Checkout.handleSubmit" /\ ev.out = "error" /\ ev.code = "createEarning"
    /\ calls[ev.s] = NoCall /\ ~orderComplete[ev.s]
    /\ \E o \in db.orders :
          /\ o.user_id = authUser[ev.s]
          /\ \E i \in db.orderItems : i.order_id = o.id
          /\ \A e \in db.sellerEarnings : e.order_id # o.id
    /\ \E r \in db.cartItems : r.user_id = authUser[ev.s]

\* The rows a submission has stored for its order, and the steps it has done.
ItemOf(d, o, p) == \E r \in d.orderItems : r.order_id = o /\ r.product_id = p

EarningOf(d, o, p) == \E e \in d.sellerEarnings : e.order_id = o /\ e.product_id = p

UseOf(d, o) == \E x \in d.discountCodeUses : x.order_id = o

Done(s, kind, i) ==
    \E j \in 1..calls[s].pc : StepsOf(s)[j] = [kind |-> kind, i |-> i]

LinesProcessed(s) ==
    \A i \in 1..Len(cartItems[s]) :
        /\ ItemOf(db, calls[s].orderId, cartItems[s][i].productId)
        /\ Done(s, "updateStock", i)
        /\ EarningOf(db, calls[s].orderId, cartItems[s][i].productId)

\* C17: the writes of one checkout happen in a fixed order: the order record
\* before any order item; per line the order item before the stock write and
\* before the earning; the usage row and the counter only after all lines;
\* no cart row is deleted before every one of those writes has completed.
C17_WritesInFixedOrder ==
    [][(ev'.op = "Checkout.handleSubmit" /\ ev'.out \in {"written", "ok"}) =>
        LET s == ev'.s
            o == calls[s].orderId
            step == StepsOf(s)[ev'.q]
            p == cartItems[s][step.i].productId
        IN /\ step.kind = ev'.code
           /\ ev'.code = "createOrder" =>
                 /\ calls[s].pc = 0
                 /\ \E r \in db'.orders \ db.orders :
                        /\ ~\E x \in db.orderItems : x.order_id = r.id
                        /\ ~\E x \in db.sellerEarnings : x.order_id = r.id
                        /\ ~UseOf(db, r.id)
           /\ ev'.code = "createOrderItem" =>
                 (\E r \in db.orders : r.id = o) /\ ~ItemOf(db, o, p)
           /\ ev'.code = "updateStock" => ItemOf(db, o, p) /\ ~EarningOf(db, o, p)
           /\ ev'.code = "createEarning" => ItemOf(db, o, p) /\ Done(s, "updateStock", step.i)
           /\ ev'.code = "createUse" => LinesProcessed(s) /\ ~UseOf(db, o)
           /\ ev'.code = "updateUses" => LinesProcessed(s) /\ UseOf(db, o)
           /\ ev'.code = "deleteCartItem" =>
                 /\ LinesProcessed(s)
                 /\ appliedDiscount[s] # NoDiscount =>
                        UseOf(db, o) /\ Done(s, "updateUses", 0)
           /\ db'.cartItems # db.cartItems => ev'.code = "deleteCartItem"]_vars

\* C17 case: a checkout of two lines with an applied code has completed.
C17_Witness ==
    /\ ev.op = "Checkout.handleSubmit" /\ ev.out = "ok"
    /\ Len(cartItems[ev.s]) = 2
    /\ appliedDiscount[ev.s] # NoDiscount
    /\ \E o \in db.orders :
          /\ \A i \in 1..2 : ItemOf(db, o.id, cartItems[ev.s][i].productId)
                              /\ EarningOf(db, o.id, cartItems[ev.s][i].productId)
          /\ UseOf(db, o.id)
    /\ \A i \in 1..2 : \A r \in db.cartItems : r.id # cartItems[ev.s][i].id

\* The orders whose checkout has run to its end.
CompletedOrders ==
    {o \in db.orders :
        \A s \in Sessions : calls[s].op = "handleSubmit" => calls[s].orderId # o.id}

\* C18: no user has more than one completed order carrying the same discount
\* code, also when the code was applied on a page before the user's first
\* order with it completed.
C18_OneOrderPerUserAndCode ==
    \A o1, o2 \in CompletedOrders :
        (/\ o1.user_id = o2.user_id
         /\ o1.discount_code = o2.discount_code
         /\ o1.discount_code # NoDiscount.code) => o1 = o2

\* C20: after any sequence of completed checkouts, overlapping ones included,
\* each discount code's usage counter equals the number of usage records
\* that reference it.
C20_CounterEqualsUsageRecords ==
    (\A s \in Sessions : calls[s] = NoCall) =>
        \A c \in db.discountCodes : c.current_uses = Cardinality(UsesOf(db, c.id))

\* C19: after any sequence of addToCart operations, interleaved ones of the
\* same user and product included, the cart holds at most one row per
\* (user, product) pair.
C19_OneRowPerUserAndProduct ==
    \A r1, r2 \in db.cartItems :
        (r1.user_id = r2.user_id /\ r1.product_id = r2.product_id) => r1 = r2

\* C22: after any sequence of checkouts, sequential or interleaved, starting
\* from non-negative stock, no product's stored stock is negative.
C22_StockNeverNegative ==
    \A r \in db.products : r.stock_quantity >= 0

\* C22 case: two checkouts have overlapped and completed, one of them from a
\* page that held a smaller stock than the quantity it ordered, so that the
\* difference it computed was negative.
C22_Witness ==
    /\ \A s \in Sessions : orderComplete[s]
    /\ Cardinality(db.orders) = 2
    /\ \E s \in Sessions :
          cartItems[s][1].stockQuantity - cartItems[s][1].quantity < 0
    /\ StockOf(db, "p1") = 0

\* C23: every order record written by checkout has
\* 0 <= discount_amount <= subtotal_amount and
\* total_amount = subtotal_amount - discount_amount, also when the cart was
\* edited on the Cart page after the discount was applied.
C23_OrderAmountsConsistent ==
    \A o \in db.orders :
        /\ 0 <= o.discount_amount
        /\ o.discount_amount <= o.subtotal_amount
        /\ o.total_amount = o.subtotal_amount - o.discount_amount

\* C24: no seller earning is ever referenced by payout items of two
\* different payout requests, also when a request is made from a page whose
\* earnings list was loaded before another request completed.
C24_EarningInOneRequest ==
    \A i1, i2 \in db.payoutItems :
        i1.seller_earning_id = i2.seller_earning_id =>
            i1.payout_request_id = i2.payout_request_id

\* The total of a field over a set of rows.
TotalNet(S) == SumSeq([i \in 1..Cardinality(S) |-> ByIdDesc(S)[i].net_earnings])

TotalAmount(S) == SumSeq([i \in 1..Cardinality(S) |-> ByIdDesc(S)[i].amount])

\* C26: after any sequence of successful payout requests by one seller, the
\* total netEarnings of the earnings flipped to pending_payout equals the
\* total amount of the payout requests created.
C26_PendingEqualsRequested ==
    \A u \in Sellers :
        TotalNet({e \in db.sellerEarnings :
                    e.seller_id = u /\ e.status = "pending_payout"})
          = TotalAmount({r \in db.payoutRequests : r.seller_id = u})

\* The quantities of a page's lines and of the stored cart rows.
LineQuantities(items) == [i \in 1..Len(items) |-> items[i].quantity]

\* C27: Cart.updateQuantity writes the new quantity to the backend and to the
\* local cart only when 1 <= newQuantity <= the product's stock as loaded
\* with the cart; for newQuantity < 1, above that stock, or for an unknown
\* item it makes no backend write and leaves every quantity unchanged.
C27_UpdateOnlyWithinLoadedStock ==
    [][ev'.op = "Cart.updateQuantity" =>
        LET s == ev'.s
            items == cartItems[s]
        IN /\ (db' # db \/ cartItems' # cartItems) =>
                \E i \in 1..Len(items), newQuantity \in 1..(MaxStock + 1) :
                    /\ newQuantity <= items[i].stockQuantity
                    /\ ev'.out = "updated"
                    /\ db' = [db EXCEPT !.cartItems =
                                 SetQuantity(@, items[i].id, newQuantity)]
                    /\ cartItems' = [cartItems EXCEPT ![s] =
                          [j \in 1..Len(items) |->
                              IF j = i THEN [items[j] EXCEPT !.quantity = newQuantity]
                              ELSE items[j]]]
           /\ ev'.out \in {"ignored", "not_found", "insufficient"} =>
                /\ db' = db
                /\ LineQuantities(cartItems'[s]) = LineQuantities(items)]_vars

\* C27 case: the page loaded its line when the stock was higher than it is
\* now, and a quantity above the current stock but within the loaded stock
\* has just been written.
C27_Witness ==
    /\ ev.op = "Cart.updateQuantity" /\ ev.out = "updated"
    /\ \E i \in 1..Len(cartItems[ev.s]) :
          /\ cartItems[ev.s][i].quantity <= cartItems[ev.s][i].stockQuantity
          /\ cartItems[ev.s][i].quantity > StockOf(db, cartItems[ev.s][i].productId)
          /\ \E r \in db.cartItems :
                /\ r.id = cartItems[ev.s][i].id
                /\ r.quantity = cartItems[ev.s][i].quantity

\* C28: with the stock held constant, after any sequence of
\* HomePage.addToCart, ProductDetails.addToCart, Cart.updateQuantity and
\* Cart.removeItem by one user, every stored cart row has a quantity between
\* 1 and the stock of its product.
C28_QuantityWithinStock ==
    \A r \in db.cartItems :
        1 <= r.quantity /\ r.quantity <= StockOf(db, r.product_id)

\* C28 case: both products are in the cart, one row holds as many copies as
\* the product has in stock, and the listing has just refused one more.
C28_Witness ==
    /\ ev.op = "HomePage.addToCart" /\ ev.out = "insufficient"
    /\ \E r1, r2 \in db.cartItems :
          /\ r1.product_id # r2.product_id
          /\ r1.product_id = ev.p
          /\ r1.quantity = StockOf(db, r1.product_id)

\* The cart rows of user u whose product the backend holds, each joined with
\* the product's data.
ExistingLines(d, u) ==
    {JoinLine(d, r) : r \in {x \in d.cartItems :
        x.user_id = u /\ \E p \in d.products : p.id = x.product_id}}

CartLoadOps == {"Cart.loadCartItems", "Checkout.loadCartItems"}

Displayed(items) == {items[i] : i \in 1..Len(items)}

Ended(e) ==
    \/ e.op = "Checkout.handleSubmit" /\ e.out \in {"ok", "stock_failed", "error"}
    \/ e.op = "handlePayoutRequest" /\ e.out \in {"ok", "error"}
    \/ e.op = "loadProducts" /\ e.out \in {"ok", "error"}

\* The flag of an operation, and whether an invocation of it is in flight.
FlagOf(fl, op) ==
    CASE op \in {"Checkout.handleSubmit", "handleSubmit"} -> fl.processing
      [] op = "handlePayoutRequest" -> fl.processingPayout
      [] op = "loadProducts" -> fl.loading

InFlight(call, op) == call.op = op

FlaggedOps == {"handleSubmit", "handlePayoutRequest", "loadProducts"}

\* C30: after every step that ends a handleSubmit, a handlePayoutRequest or a
\* listing load the operation's flag is false; a flag is set only while an
\* invocation of its operation is in flight, and stays set as long as one is.
C30_FlagsFollowCalls ==
    [][\A s \in ShopSessions :
        /\ (ev'.s = s /\ Ended(ev')) => ~FlagOf(flags'[s], ev'.op)
        /\ \A op \in FlaggedOps :
              FlagOf(flags'[s], op) <=> InFlight(calls'[s], op)]_vars

\* x + y as a real number, without rounding.
ExactPlus(x, y) == LET a == Aligned(x, y) IN Canon(AddN(a.x, a.y), a.e)

\* The earnings a step creates for the line of product p.
NewEarnings(d, e, p) == {r \in e.sellerEarnings \ d.sellerEarnings : r.product_id = p}

\* C21: a submission that succeeds creates, for every cart line whose product
\* exists, exactly one earnings record, for the product's owner, with
\* totalEarnings = unit price * quantity, commissionRate 0.05,
\* commissionAmount = totalEarnings * commissionRate, netEarnings =
\* totalEarnings - commissionAmount and status available, and in every such
\* record commissionAmount + netEarnings = totalEarnings.
C21_EarningPerLine ==
    [][(ev'.op = "handleSubmit" /\ ev'.out = "ok") =>
        \A i \in 1..Len(cartItems[ev'.s]) :
            LET item == cartItems[ev'.s][i]
                owners == ProductRows(db, item.productId)
                new == NewEarnings(db, db', item.productId)
            IN owners # {} =>
                /\ Cardinality(new) = 1
                /\ \A r \in new :
                      /\ r.seller_id = OnlyRow(owners).user_id
                      /\ r.quantity = item.quantity
                      /\ r.unit_price = item.price
                      /\ r.total_earnings = Times(item.price, FromInt(item.quantity))
                      /\ r.commission_rate = FromCents(5)
                      /\ r.commission_amount = Times(r.total_earnings, r.commission_rate)
                      /\ r.net_earnings = Minus(r.total_earnings, r.commission_amount)
                      /\ r.status = "available"
                      /\ ExactPlus(r.commission_amount, r.net_earnings)
                            = r.total_earnings]_vars

\* The sum of the amounts of a set of payout items, as a real number.
RECURSIVE ExactSum(_)
ExactSum(S) ==
    IF S = {} THEN Zero
    ELSE LET i == CHOOSE x \in S : TRUE IN ExactPlus(i.amount, ExactSum(S \ {i}))

ItemsOfRequest(d, r) == {i \in d.payoutItems : i.payout_request_id = r.id}

\* C25: the amounts of the payout items of every payout request sum to the
\* request's amount, and each item's amount is positive and at most the
\* netEarnings of the earning it references.
C25_ItemsSumToRequest ==
    \A r \in db.payoutRequests :
        /\ ExactSum(ItemsOfRequest(db, r)) = r.amount
        /\ \A i \in ItemsOfRequest(db, r) :
              /\ Less(Zero, i.amount)
              /\ \A e \in db.sellerEarnings :
                    e.id = i.seller_earning_id => ~Less(e.net_earnings, i.amount)

====
